---- MODULE Spec2Model ----
(***************************************************************************)
(* A model of pytosca (src/pytosca/tosca.py): the TOSCA type hierarchy     *)
(* (topological_sort, merge, TypeHierarchy and its kind loaders) and the    *)
(* topology facade: input binding (Tosca.get_input / bind_inputs, Value,   *)
(* Property, ValueResolver), the reads of templates, requirements,         *)
(* relations, capabilities, interfaces and outputs, validate, and          *)
(* Constraint.validate.                                                    *)
(*                                                                          *)
(* Python values are tagged records, so that values of different Python    *)
(* types can be compared:  None, Dict(f) (f a function from keys to        *)
(* values), List(s) (s a sequence), PyInt(i).  A type name is the sequence   *)
(* of its dotted segments: tosca.nodes.Root is <<"tosca","nodes","Root">>. *)
(* A Python dict that is only read by key (a type fragment, an input's     *)
(* attrs, a document) is a function whose DOMAIN is its key set.           *)
(***************************************************************************)
EXTENDS Integers, Sequences, FiniteSets, TLC

VARIABLES
    nodes,          \* TypeHierarchy.nodes: key -> node class
    capabilities,   \* TypeHierarchy.capabilities
    relations,      \* TypeHierarchy.relations
    interfaces,     \* TypeHierarchy.interfaces
    data,           \* the document being loaded (load_schema's data, a kind loader's data)
    pending,        \* the kind loaders the running load has still to call, in order
    phase,          \* where the hierarchy's owner is in its life
    error,          \* the exception that ended the last load, "" when none
    call,           \* the last kind loader call: [kind, names]
    graph_unsorted, \* topological_sort's local graph_unsorted
    graph_sorted,   \* topological_sort's local graph_sorted
    order,          \* load_nodes: the names _derived_sort returned, not yet constructed
    pc,             \* position of the step-wise load_nodes call
    inputs,         \* Tosca.data['inputs']: input name -> attrs
    bound,          \* the mapping handed to the last bind_inputs call
    bind_error,     \* the exception that ended the last bind_inputs call, "" when none
    read,           \* the last read of the topology: what was read and its outcome
    held,           \* the Output objects callers obtained from get_output and kept
    argv            \* the arguments of a call of Constraint.validate or merge

vars == <<nodes, capabilities, relations, interfaces, data, pending, phase, error,
          call, graph_unsorted, graph_sorted, order, pc, inputs, bound, bind_error,
          read, held, argv>>

typeVars == <<nodes, capabilities, relations, interfaces, data, pending, phase, error, call>>
sortVars == <<graph_unsorted, graph_sorted, order, pc>>
bindVars == <<inputs, bound, bind_error>>
topoVars == <<read, held, argv>>

(***************************************************************************)
(* Python values                                                           *)
(***************************************************************************)
None == [shape |-> "none"]
Dict(f) == [shape |-> "dict", d |-> f]
List(s) == [shape |-> "list", l |-> s]
PyInt(i) == [shape |-> "int", i |-> i]
TypeError == [shape |-> "TypeError"]

EmptyMap == <<>>

\* no read of the topology has been made
NoRead == [op |-> ""]

\* no call of a function on its own is under way
NoArgs == [fn |-> ""]

\* dict.get(key, default) on a dict modelled as a function
DictGet(f, k, default) == IF k \in DOMAIN f THEN f[k] ELSE default

\* f with key k set to v (f[k] = v in Python)
DictSet(f, k, v) == [x \in DOMAIN f \cup {k} |-> IF x = k THEN v ELSE f[x]]

\* y.update(x): every key of x is written into y
DictUpdate(y, x) == [k \in DOMAIN y \cup DOMAIN x |-> IF k \in DOMAIN x THEN x[k] ELSE y[k]]

Range(s) == {s[i] : i \in DOMAIN s}

\* every sequence that lists the elements of S once: the orders in which a
\* Python 2 dict with key set S may be iterated
Orderings(S) ==
    {s \in [1..Cardinality(S) -> S] : \A i, j \in 1..Cardinality(S) : s[i] = s[j] => i = j}

(***************************************************************************)
(* merge(x, y)   src/pytosca/tosca.py:62-82                                *)
(* x is the base class's merged value, y the child fragment's value.       *)
(***************************************************************************)
merge_parent_first(x, y) ==
    IF x = None THEN y
    ELSE IF y = None THEN
        IF x.shape = "list" THEN TypeError
        ELSE IF x.shape = "dict" THEN Dict(x.d)
        ELSE None
    ELSE IF x.shape # y.shape THEN y
    ELSE IF y.shape = "dict" THEN Dict(DictUpdate(y.d, x.d))
    ELSE List(x.l \o y.l)

merge(x, y) ==
    IF x = None THEN y
    ELSE IF y = None THEN
        IF x.shape = "list" THEN TypeError      \* list(y) with y None raises
        ELSE IF x.shape = "dict" THEN Dict(x.d) \* dict(x)
        ELSE None                               \* falls off the end
    ELSE IF x.shape # y.shape THEN y
    ELSE IF y.shape = "dict" THEN Dict(DictUpdate(y.d, x.d))  \* y.update(x)
    ELSE List(y.l \o x.l)                                     \* y.extend(x)

\* a merge that writes the entries of y into x as well
merge_writes_x(x, y) ==
    IF x = None \/ y = None \/ x.shape # y.shape THEN x
    ELSE IF x.shape = "dict" THEN Dict(DictUpdate(x.d, y.d))
    ELSE List(x.l \o y.l)

\* what a call of merge leaves of x, the base class's value: update and
\* extend are called on y, dict(x) copies x, nothing is assigned into x
merge_leaves(x, y) == x

(***************************************************************************)
(* topological_sort(graph_unsorted)   src/pytosca/tosca.py:42-59           *)
(***************************************************************************)
RECURSIVE ForPassAnyEdge(_, _, _, _)
\* the loop with the test on the edges left out: every node is taken
ForPassAnyEdge(items, unsorted, sorted, acyclic) ==
    IF items = <<>> THEN [unsorted |-> unsorted, sorted |-> sorted, acyclic |-> acyclic]
    ELSE ForPassAnyEdge(Tail(items),
                        [n \in DOMAIN unsorted \ {Head(items)[1]} |-> unsorted[n]],
                        Append(sorted, Head(items)),
                        TRUE)

RECURSIVE ForPass(_, _, _, _)
\* One "for node, edges in graph_unsorted.items()" loop.  items is the
\* snapshot the loop iterates (Python 2's items() is a list), unsorted the
\* dict the loop deletes from.
ForPass(items, unsorted, sorted, acyclic) ==
    IF items = <<>> THEN [unsorted |-> unsorted, sorted |-> sorted, acyclic |-> acyclic]
    ELSE LET node == Head(items)[1]
             edges == Head(items)[2]
         IN  IF \E i \in DOMAIN edges : edges[i] \in DOMAIN unsorted
             THEN ForPass(Tail(items), unsorted, sorted, acyclic)
             ELSE ForPass(Tail(items),
                          [n \in DOMAIN unsorted \ {node} |-> unsorted[n]],
                          Append(sorted, <<node, edges>>),
                          TRUE)

\* graph_unsorted.items() in the order ks of its keys
Items(unsorted, ks) == [i \in DOMAIN ks |-> <<ks[i], unsorted[ks[i]]>>]

RECURSIVE SortFrom(_, _)
\* The while loop from a given state: the set of its outcomes over the
\* iteration orders of the dict.  An outcome is the returned graph_sorted,
\* or raised: RuntimeError("A cyclic dependency occurred").
SortFrom(unsorted, sorted) ==
    IF DOMAIN unsorted = {} THEN {[raised |-> FALSE, sorted |-> sorted]}
    ELSE UNION { LET r == ForPass(Items(unsorted, ks), unsorted, sorted, FALSE)
                 IN  IF ~r.acyclic THEN {[raised |-> TRUE, sorted |-> <<>>]}
                     ELSE SortFrom(r.unsorted, r.sorted)
                 : ks \in Orderings(DOMAIN unsorted) }

RECURSIVE SortFromNoRaise(_, _)
SortFromNoRaise(unsorted, sorted) ==
    IF DOMAIN unsorted = {} THEN {[raised |-> FALSE, sorted |-> sorted]}
    ELSE UNION { LET r == ForPass(Items(unsorted, ks), unsorted, sorted, FALSE)
                 IN  IF ~r.acyclic THEN {[raised |-> FALSE, sorted |-> r.sorted]}
                     ELSE SortFromNoRaise(r.unsorted, r.sorted)
                 : ks \in Orderings(DOMAIN unsorted) }

\* a sort that gives up on a cycle and returns what it has
topological_sort_no_raise(graph) == SortFromNoRaise(graph, <<>>)

topological_sort(graph) == SortFrom(graph, <<>>)

(***************************************************************************)
(* TypeHierarchy   src/pytosca/tosca.py:96-204                             *)
(***************************************************************************)
ENTITY_KINDS == <<"nodes", "capabilities", "relations", "interfaces">>

\* n.split(".")[-1], as a key of a type map
ShortName(n) == <<n[Len(n)]>>

\* The classes the generated classes derive from when derived_from names no
\* loaded type: Node, Capability and Relation with their class attributes.
Node ==
    [kind |-> "nodes", tosca_name |-> <<>>, _requirements |-> None,
     _interfaces |-> None, _properties |-> None, _capabilities |-> None]

Capability == [kind |-> "capabilities", tosca_name |-> <<>>, _properties |-> None]

Relation ==
    [kind |-> "relations", tosca_name |-> <<>>, _valid_targets |-> None, _interfaces |-> None]

\* self.nodes.get(type_info.get('derived_from'), Node)
BaseOf(tmap, type_info, root) ==
    IF "derived_from" \in DOMAIN type_info
    THEN DictGet(tmap, type_info.derived_from, root)
    ELSE root

\* The class load_nodes builds for n, or TypeError when building it raises.
\* base is the class it derives from; type_info keeps the fragment the class
\* was built from, as it was handed to the loader.
NodeClass(tmap, n, type_info) ==
    LET base == BaseOf(tmap, type_info, Node)
        reqs == merge(base._requirements, DictGet(type_info, "requirements", List(<<>>)))
        ifaces == merge(base._interfaces, DictGet(type_info, "interfaces", List(<<>>)))
        props == merge(base._properties, DictGet(type_info, "properties", Dict(EmptyMap)))
        caps == merge(base._capabilities, DictGet(type_info, "capabilities", Dict(EmptyMap)))
    IN  IF \/ DictGet(type_info, "capabilities", Dict(EmptyMap)) = None  \* for t in None
           \/ reqs = TypeError \/ ifaces = TypeError
           \/ props = TypeError \/ caps = TypeError
        THEN TypeError
        ELSE [kind |-> "nodes", tosca_name |-> n, name |-> ShortName(n), base |-> base,
              _requirements |-> reqs, _interfaces |-> ifaces,
              _properties |-> props, _capabilities |-> caps, type_info |-> type_info]

RelationClass(tmap, n, type_info) ==
    LET base == BaseOf(tmap, type_info, Relation)
        targets == merge(base._valid_targets, DictGet(type_info, "valid_targets", List(<<>>)))
        ifaces == merge(base._interfaces, DictGet(type_info, "interfaces", Dict(EmptyMap)))
    IN  IF targets = TypeError \/ ifaces = TypeError
        THEN TypeError
        ELSE [kind |-> "relations", tosca_name |-> n, name |-> ShortName(n), base |-> base,
              _valid_targets |-> targets, _interfaces |-> ifaces, type_info |-> type_info]

CapabilityClass(tmap, n, type_info) ==
    LET base == BaseOf(tmap, type_info, Capability)
        props == merge(base._properties, DictGet(type_info, "properties", Dict(EmptyMap)))
    IN  IF props = TypeError
        THEN TypeError
        ELSE [kind |-> "capabilities", tosca_name |-> n, name |-> ShortName(n), base |-> base,
              _properties |-> props, type_info |-> type_info]

\* the class attributes each kind's loader hands to merge as x, with the
\* fragment key and the value type_info.get gives when the key is absent
MergedFields ==
    [nodes |-> {<<"_requirements", "requirements", List(<<>>)>>,
                <<"_interfaces", "interfaces", List(<<>>)>>,
                <<"_properties", "properties", Dict(EmptyMap)>>,
                <<"_capabilities", "capabilities", Dict(EmptyMap)>>},
     capabilities |-> {<<"_properties", "properties", Dict(EmptyMap)>>},
     relations |-> {<<"_valid_targets", "valid_targets", List(<<>>)>>,
                    <<"_interfaces", "interfaces", Dict(EmptyMap)>>}]

\* the base class once a class has been built on it from type_info
LeftOf(kind, base, type_info) ==
    [a \in DOMAIN base |->
        IF \E f \in MergedFields[kind] : f[1] = a
        THEN LET f == CHOOSE g \in MergedFields[kind] : g[1] = a
             IN  merge_leaves(base[a], DictGet(type_info, f[2], f[3]))
        ELSE base[a]]

\* the type map once a class has been built from type_info: the class it
\* derives from, under every key that holds it, is what the merges left
BaseAfter(kind, tmap, type_info) ==
    IF "derived_from" \notin DOMAIN type_info \/ type_info.derived_from \notin DOMAIN tmap
    THEN tmap
    ELSE LET base == tmap[type_info.derived_from]
         IN  [k \in DOMAIN tmap |->
                IF tmap[k] = base THEN LeftOf(kind, base, type_info) ELSE tmap[k]]

InterfaceType(n, idata) == [kind |-> "interfaces", name |-> n, data |-> idata, tosca_name |-> n]

\* self.nodes[n] = cls; self.nodes[cls.__name__] = cls
RegisterQualifiedOnly(tmap, n, cls) == DictSet(tmap, n, cls)

Register(tmap, n, cls) == DictSet(DictSet(tmap, n, cls), ShortName(n), cls)

\* _derived_sort's graph: each name to the list holding its derived_from
DerivedGraph(names, d) ==
    [n \in names |->
        IF "derived_from" \in DOMAIN DictGet(d, n, EmptyMap)
        THEN <<d[n].derived_from>> ELSE <<>>]

\* the outcomes of _derived_sort: [raised, sorted], sorted the names in order
_derived_sort(names, d) ==
    { [raised |-> r.raised, sorted |-> [i \in DOMAIN r.sorted |-> r.sorted[i][1]]]
      : r \in topological_sort(DerivedGraph(names, d)) }

ClassOf(kind, tmap, n, type_info) ==
    CASE kind = "nodes" -> NodeClass(tmap, n, type_info)
      [] kind = "capabilities" -> CapabilityClass(tmap, n, type_info)
      [] kind = "relations" -> RelationClass(tmap, n, type_info)

RECURSIVE ConstructAll(_, _, _, _)
\* the "for n in self._derived_sort(names, data)" loop of a kind loader:
\* the map it leaves, the exception that ended it, the last class it built
ConstructAll(kind, tmap, ord, d) ==
    IF ord = <<>> THEN [map |-> tmap, error |-> "", last |-> <<>>]
    ELSE LET n == Head(ord)
             cls == ClassOf(kind, tmap, n, d[n])
         IN  IF cls = TypeError THEN [map |-> tmap, error |-> "TypeError", last |-> <<>>]
             ELSE IF Len(ord) = 1
                  THEN [map |-> Register(BaseAfter(kind, tmap, d[n]), n, cls),
                        error |-> "", last |-> n]
             ELSE ConstructAll(kind, Register(BaseAfter(kind, tmap, d[n]), n, cls), Tail(ord), d)

\* load_nodes / load_capabilities: the outcomes [map, error] over the orders
\* the sort may return
LoadDerived(kind, tmap, names, d) ==
    { IF s.raised THEN [map |-> tmap, error |-> "RuntimeError", last |-> <<>>]
      ELSE ConstructAll(kind, tmap, s.sorted, d)
      : s \in _derived_sort(names, d) }

load_nodes(tmap, names, d) == LoadDerived("nodes", tmap, names, d)

load_capabilities(tmap, names, d) == LoadDerived("capabilities", tmap, names, d)

\* load_relations: the loop, then cls.type_interfaces = [InterfaceType(k, v)
\* for k, v in data.items()] on the last class built; cls is unbound when
\* the loop body never ran.
load_relations(tmap, names, d) ==
    { IF r.error # "" THEN r
      ELSE IF r.last = <<>> THEN [map |-> tmap, error |-> "UnboundLocalError", last |-> <<>>]
      ELSE LET cls == DictSet(r.map[r.last], "type_interfaces",
                              [k \in DOMAIN d |-> InterfaceType(k, d[k])])
           IN  [map |-> Register(r.map, r.last, cls), error |-> "", last |-> r.last]
      : r \in LoadDerived("relations", tmap, names, d) }

RECURSIVE RegisterInterfaces(_, _, _)
RegisterInterfaces(tmap, ord, d) ==
    IF ord = <<>> THEN tmap
    ELSE RegisterInterfaces(Register(tmap, Head(ord), InterfaceType(Head(ord), d[Head(ord)])),
                            Tail(ord), d)

\* load_interfaces: names is a list in the order of the document's keys
load_interfaces(tmap, names, d) ==
    { [map |-> RegisterInterfaces(tmap, ord, d), error |-> "", last |-> <<>>]
      : ord \in Orderings(names) }

\* TypeHierarchy.get(name, qualified, types) on the hierarchy h (a record of
\* the four maps); types a sequence of kinds
RECURSIVE get(_, _, _, _)
get(h, name, qualified, types) ==
    IF types = <<>> THEN None
    ELSE LET tmap == h[Head(types)]
             cls == DictGet(tmap, name, None)
         IN  IF cls # None THEN cls
             ELSE IF ~qualified /\ DictGet(tmap, name, None) # None
                  THEN DictGet(tmap, name, None)
                  ELSE get(h, name, qualified, Tail(types))

Hierarchy ==
    [nodes |-> nodes, capabilities |-> capabilities,
     relations |-> relations, interfaces |-> interfaces]

(***************************************************************************)
(* The documents the loads are run on                                      *)
(***************************************************************************)
NRoot == <<"tosca", "nodes", "Root">>
NWebServer == <<"tosca", "nodes", "WebServer">>
CRoot == <<"tosca", "capabilities", "Root">>
CEndpoint == <<"tosca", "capabilities", "Endpoint">>
RRoot == <<"tosca", "relations", "Root">>
RHostedOn == <<"tosca", "relations", "HostedOn">>
ILifecycle == <<"tosca", "interfaces", "node", "Lifecycle">>
AFile == <<"tosca", "artifacts", "File">>
MyWebServer == <<"my", "WebServer">>
App == <<"App">>
MyCap == <<"my", "App">>
MyRel == <<"my", "HostedOn">>

PropsA == Dict([p1 |-> [type |-> "string"]])
PropsB == Dict([p1 |-> [type |-> "integer"], p2 |-> [type |-> "string"]])
CapsA == Dict([c1 |-> [type |-> CRoot]])
CapsB == Dict([c1 |-> [type |-> CEndpoint], c2 |-> [type |-> CRoot]])
ReqHost == [host |-> <<"tosca", "nodes", "Compute">>]
ReqDep == [dependency |-> <<"tosca", "capabilities", "Feature">>]
IfList == List(<<ILifecycle>>)
IfDict == Dict([k \in {<<"Lifecycle">>} |-> [inputs |-> [db_host |-> "string"]]])

\* what a node type fragment may say besides derived_from
NodeEmpty == EmptyMap
NodeA ==
    [properties |-> PropsA, capabilities |-> CapsA,
     requirements |-> List(<<ReqHost>>), interfaces |-> IfList]
NodeB ==
    [properties |-> PropsB, capabilities |-> CapsB,
     requirements |-> List(<<ReqDep>>), interfaces |-> IfDict]
NodeNullProps == [properties |-> None]      \* "properties:" with no value
NodeNullReqs == [requirements |-> None]

NoBase == <<>>
WithBase(content, b) == IF b = NoBase THEN content ELSE DictSet(content, "derived_from", b)

\* every mapping of at most max of the names to a fragment
Sections(names, frags, max) ==
    UNION { [S -> frags] : S \in {T \in SUBSET names : Cardinality(T) <= max} }

\* f and g, two dicts with disjoint key sets, as one
Both(f, g) == [k \in DOMAIN f \cup DOMAIN g |-> IF k \in DOMAIN f THEN f[k] ELSE g[k]]

SchemaNodes ==
    { Both([k \in {NRoot} |-> r], w)
      : r \in {NodeA, NodeB},
        w \in Sections({NWebServer},
                       {WithBase(c, NRoot) : c \in {NodeEmpty, NodeA, NodeB}}, 1) }
    \cup { [k \in {NRoot, NWebServer} |->
              IF k = NRoot THEN WithBase(NodeA, NWebServer) ELSE WithBase(NodeB, NRoot)] }

SchemaCapabilities ==
    [k \in {CRoot, CEndpoint} |->
        IF k = CRoot THEN [properties |-> PropsA]
        ELSE [derived_from |-> CRoot, properties |-> PropsB]]

SchemaRelations ==
    { EmptyMap,
      [k \in {RRoot, RHostedOn} |->
          IF k = RRoot THEN [valid_targets |-> List(<<CRoot>>)]
          ELSE [derived_from |-> RRoot, valid_targets |-> List(<<CEndpoint>>),
                interfaces |-> IfList]] }

SchemaRest ==
    [k \in {ILifecycle, AFile} |->
        IF k = ILifecycle THEN [create |-> [description |-> "create"]]
        ELSE [description |-> "file"]]

\* the schema documents load_schema is run on
Schemas ==
    { Both(Both(n, SchemaCapabilities), Both(r, SchemaRest))
      : n \in SchemaNodes, r \in SchemaRelations }

MaxDocTypes == 2

DocNodeFragments ==
    { WithBase(c, b) : c \in {NodeEmpty, NodeA, NodeB, NodeNullProps, NodeNullReqs},
                       b \in {NoBase, NWebServer, MyWebServer, App} }

DocCapabilityTypes ==
    [k \in {MyCap} |-> [derived_from |-> CEndpoint, properties |-> PropsA]]

DocRelationTypes ==
    [k \in {MyRel} |-> [derived_from |-> RHostedOn, valid_targets |-> List(<<CRoot>>)]]

DocRelationCycle ==
    [k \in {MyRel, RHostedOn} |->
        IF k = MyRel THEN [derived_from |-> RHostedOn] ELSE [derived_from |-> MyRel]]

\* the topology documents Tosca is constructed on (their type extensions)
Documents ==
    { [node_types |-> s] : s \in Sections({MyWebServer, App, NRoot}, DocNodeFragments, MaxDocTypes) }
    \cup { [description |-> "no extensions"],
           [capability_types |-> DocCapabilityTypes],
           [relation_types |-> EmptyMap],
           [relation_types |-> DocRelationTypes],
           [relation_types |-> DocRelationCycle, capability_types |-> DocCapabilityTypes],
           [node_types |-> [k \in {App} |-> WithBase(NodeB, NWebServer)],
            capability_types |-> DocCapabilityTypes,
            relation_types |-> DocRelationTypes] }

(***************************************************************************)
(* Loading: load_schema (src/pytosca/tosca.py:130-137) and                 *)
(* Tosca.__init__ / _load_template_schema (600-611) call the kind loaders  *)
(* one after the other; each kind loader call is one step.                 *)
(***************************************************************************)
ENTITY_TYPE_MAP ==
    [nodes |-> "node_types", capabilities |-> "capability_types",
     relations |-> "relation_types", interfaces |-> ""]

\* k.startswith('tosca.%s' % c), on dotted segments
InGroup(k, c) == Len(k) >= 2 /\ k[1] = "tosca" /\ k[2] = c

\* the names and the data the running load hands to the loader of kind
LoaderData(ph, d, kind) == IF ph = "load_schema" THEN d ELSE d[ENTITY_TYPE_MAP[kind]]

LoaderNames(ph, d, kind) ==
    IF ph = "load_schema" THEN {k \in DOMAIN d : InGroup(k, kind)}
    ELSE DOMAIN d[ENTITY_TYPE_MAP[kind]]

\* the kinds _load_template_schema loads for document doc
TemplateKinds(doc) ==
    {k \in Range(ENTITY_KINDS) : ENTITY_TYPE_MAP[k] # "" /\ ENTITY_TYPE_MAP[k] \in DOMAIN doc}

Loading == phase \in {"load_schema", "load_template"} /\ pending # <<>>

\* what a loader call that ended with outcome r leaves of the running load
AfterCall(r) ==
    /\ error' = r.error
    /\ pending' = IF r.error = "" THEN Tail(pending) ELSE <<>>
    /\ phase' = IF r.error # "" THEN "failed"
                ELSE IF Tail(pending) # <<>> THEN phase
                ELSE IF phase = "load_schema" THEN "schema_loaded" ELSE "ready"
    /\ call' = [kind |-> Head(pending),
                names |-> LoaderNames(phase, data, Head(pending)),
                data |-> LoaderData(phase, data, Head(pending))]
    /\ UNCHANGED <<data, sortVars, bindVars, topoVars>>

\* load_schema: data = yaml_load(fh.read()), then the loaders in ENTITY_KINDS order
LoadSchema ==
    /\ phase = "new"
    /\ \E d \in Schemas : data' = d
    /\ pending' = ENTITY_KINDS
    /\ phase' = "load_schema"
    /\ UNCHANGED <<nodes, capabilities, relations, interfaces, error, call, sortVars, bindVars, topoVars>>

\* Tosca.__init__ after load_schema: self.data = data, then
\* _load_template_schema, which visits ENTITY_TYPE_MAP.items() in dict order
LoadTemplateSchema ==
    /\ phase = "schema_loaded"
    /\ \E doc \in Documents :
        /\ data' = doc
        /\ \E ord \in Orderings(TemplateKinds(doc)) :
            /\ pending' = ord
            /\ phase' = IF ord = <<>> THEN "ready" ELSE "load_template"
    /\ UNCHANGED <<nodes, capabilities, relations, interfaces, error, call, sortVars, bindVars, topoVars>>

LoadNodes ==
    /\ Loading /\ Head(pending) = "nodes"
    /\ \E r \in load_nodes(nodes, LoaderNames(phase, data, "nodes"),
                           LoaderData(phase, data, "nodes")) :
        nodes' = r.map /\ AfterCall(r)
    /\ UNCHANGED <<capabilities, relations, interfaces>>

LoadCapabilities ==
    /\ Loading /\ Head(pending) = "capabilities"
    /\ \E r \in load_capabilities(capabilities, LoaderNames(phase, data, "capabilities"),
                                  LoaderData(phase, data, "capabilities")) :
        capabilities' = r.map /\ AfterCall(r)
    /\ UNCHANGED <<nodes, relations, interfaces>>

LoadRelations ==
    /\ Loading /\ Head(pending) = "relations"
    /\ \E r \in load_relations(relations, LoaderNames(phase, data, "relations"),
                               LoaderData(phase, data, "relations")) :
        relations' = r.map /\ AfterCall(r)
    /\ UNCHANGED <<nodes, capabilities, interfaces>>

LoadInterfaces ==
    /\ Loading /\ Head(pending) = "interfaces"
    /\ \E r \in load_interfaces(interfaces, LoaderNames(phase, data, "interfaces"),
                                LoaderData(phase, data, "interfaces")) :
        interfaces' = r.map /\ AfterCall(r)
    /\ UNCHANGED <<nodes, capabilities, relations>>

NoCall == [kind |-> "", names |-> {}, data |-> EmptyMap]

\* TypeHierarchy.__init__; no sort and no topology in progress
InitTypes ==
    /\ nodes = EmptyMap /\ capabilities = EmptyMap
    /\ relations = EmptyMap /\ interfaces = EmptyMap
    /\ data = EmptyMap /\ pending = <<>> /\ phase = "new" /\ error = "" /\ call = NoCall
    /\ graph_unsorted = EmptyMap /\ graph_sorted = <<>> /\ order = <<>> /\ pc = "idle"
    /\ inputs = EmptyMap /\ bound = EmptyMap /\ bind_error = ""
    /\ read = NoRead /\ held = {} /\ argv = NoArgs

NextTypes ==
    \/ LoadSchema
    \/ LoadTemplateSchema
    \/ LoadNodes
    \/ LoadCapabilities
    \/ LoadRelations
    \/ LoadInterfaces

SpecTypes == InitTypes /\ [][NextTypes]_vars

(***************************************************************************)
(* Properties of the type hierarchy, checked under SpecTypes               *)
(***************************************************************************)
Classes(tmap) == {tmap[k] : k \in DOMAIN tmap}

\* the classes built from a fragment whose derived_from named a loaded type
Derived(tmap) == {T \in Classes(tmap) : T.base.tosca_name # <<>>}

\* the entries of a merged field: a mapping's keys, a sequence's elements
Entries(v) ==
    IF v.shape = "dict" THEN DOMAIN v.d
    ELSE IF v.shape = "list" THEN Range(v.l)
    ELSE {}

\* the value the fragment gives a field, None when it has no such key
Own(T, key) == DictGet(T.type_info, key, None)

ChildKeyWins(pv, cv, mv) ==
    (pv.shape = "dict" /\ cv.shape = "dict")
        => \A k \in DOMAIN pv.d \cap DOMAIN cv.d : mv.d[k] = cv.d[k]

\* C1: in a type derived from a loaded parent, a key of a mapping field
\* (properties, capabilities) that both the parent's merged mapping and the
\* child's own fragment define maps to the child's definition.
C1_ChildKeyWins ==
    /\ \A T \in Derived(nodes) :
        /\ ChildKeyWins(T.base._properties, Own(T, "properties"), T._properties)
        /\ ChildKeyWins(T.base._capabilities, Own(T, "capabilities"), T._capabilities)
    /\ \A T \in Derived(capabilities) :
        ChildKeyWins(T.base._properties, Own(T, "properties"), T._properties)

ParentFirst(pv, cv, mv) ==
    (pv.shape = "list" /\ cv.shape = "list") => mv = List(pv.l \o cv.l)

ChildFirst(pv, cv, mv) ==
    (pv.shape = "list" /\ cv.shape = "list") => mv = List(cv.l \o pv.l)

BothSequences(pv, cv) ==
    /\ pv.shape = "list" /\ cv.shape = "list"
    /\ pv.l # <<>> /\ cv.l # <<>> /\ pv.l # cv.l

KeptWhenOmitted(T, key, pv, mv) ==
    key \notin DOMAIN T.type_info => Entries(pv) \subseteq Entries(mv)

\* C3: every property name, capability name, requirement entry and interface
\* entry of the parent's merged descriptor is in the child's merged
\* descriptor, for a mapping and for a sequence on the parent; stated here for
\* the case the claim names last, a child fragment that omits the field.
C3_ParentEntriesKept ==
    \A T \in Derived(nodes) :
        /\ KeptWhenOmitted(T, "properties", T.base._properties, T._properties)
        /\ KeptWhenOmitted(T, "capabilities", T.base._capabilities, T._capabilities)
        /\ KeptWhenOmitted(T, "requirements", T.base._requirements, T._requirements)
        /\ KeptWhenOmitted(T, "interfaces", T.base._interfaces, T._interfaces)

\* the parent of n among names, NoBase when it has none there
ParentIn(names, d, n) ==
    IF "derived_from" \in DOMAIN d[n] /\ d[n].derived_from \in names
    THEN d[n].derived_from ELSE NoBase

RECURSIVE Climb(_, _, _, _)
\* the k-th ancestor of n among names, NoBase when the chain ends before
Climb(names, d, n, k) ==
    IF k = 0 \/ n = NoBase THEN n
    ELSE Climb(names, d, ParentIn(names, d, n), k - 1)

\* derived_from, restricted to names, has a cycle
HasCycle(names, d) ==
    \E n \in names : \E k \in 1..Cardinality(names) : Climb(names, d, n, k) = n

Registered ==
    Classes(nodes) \cup Classes(capabilities) \cup Classes(relations) \cup Classes(interfaces)

\* another type among R has the short name of D
SharesShortName(R, D) ==
    \E E \in R : ShortName(E.tosca_name) = ShortName(D.tosca_name) /\ E # D

\* C6: for a registered type whose short name no other registered type has,
\* get(qualified name) and get(short name) return the same descriptor.
C6_GetSymmetric ==
    LET R == Registered
    IN  \A D \in R :
            ~SharesShortName(R, D) =>
                /\ get(Hierarchy, D.tosca_name, FALSE, ENTITY_KINDS) # None
                /\ get(Hierarchy, D.tosca_name, FALSE, ENTITY_KINDS)
                     = get(Hierarchy, ShortName(D.tosca_name), FALSE, ENTITY_KINDS)

\* after the schema and a document's types are loaded, types of every kind
\* are registered under a dotted name with a short name of their own, beside
\* types that share their short name
C6_Witness ==
    /\ phase = "ready"
    /\ \A kind \in {"nodes", "capabilities", "relations", "interfaces"} :
        \E D \in Classes(Hierarchy[kind]) :
            ~SharesShortName(Registered, D) /\ Len(D.tosca_name) > 1
    /\ \E D \in Registered : SharesShortName(Registered, D)

\* C7: get(name, qualified=true) returns a descriptor only for the exact
\* qualified name of a registered type, nothing for a short name.
C7_QualifiedExact ==
    \A kind \in {"nodes", "capabilities", "relations", "interfaces"} :
        \A name \in DOMAIN Hierarchy[kind] :
            LET cls == get(Hierarchy, name, TRUE, ENTITY_KINDS)
            IN  cls # None => cls.tosca_name = name

\* the merged fields of descriptor D are those its loader computed from the
\* class it derives from and its own fragment
AsBuilt(D) ==
    \A f \in MergedFields[D.kind] :
        D[f[1]] = merge(D.base[f[1]], DictGet(D.type_info, f[2], f[3]))

\* the keys the last loader call registered a class under
Rebuilt(c) == c.names \cup {ShortName(n) : n \in c.names}

C29_EmptyRelationsLoad ==
    [][ (call' # call /\ call'.kind = "relations" /\ call'.names = {}) =>
            error' = "" /\ relations' = relations ]_vars

(***************************************************************************)
(* load_nodes(names, data) step by step: _derived_sort builds the graph,   *)
(* topological_sort runs its while loop one pass at a time, then the       *)
(* classes are built one at a time in the order returned.                  *)
(***************************************************************************)
MaxSortNames == 3

NameSegments == <<"A", "B", "C", "D", "E", "F">>

SortNames == {<<"tosca", "nodes", NameSegments[i]>> : i \in 1..MaxSortNames}

\* a type that is never in the batch: loaded before it, or not at all
Elsewhere == <<"tosca", "nodes", "Elsewhere">>

\* the batches: every set of the names, each type with no parent, a parent
\* among the names (itself included) or the parent outside the batch
SortBatches ==
    UNION { [S -> {WithBase(NodeEmpty, b) : b \in SortNames \cup {NoBase, Elsewhere}}]
            : S \in SUBSET SortNames }

InitSort ==
    /\ data \in SortBatches
    /\ nodes \in {EmptyMap, Register(EmptyMap, Elsewhere, NodeClass(EmptyMap, Elsewhere, NodeA))}
    /\ pc = "derived_sort"
    /\ graph_unsorted = EmptyMap /\ graph_sorted = <<>> /\ order = <<>>
    /\ capabilities = EmptyMap /\ relations = EmptyMap /\ interfaces = EmptyMap
    /\ pending = <<>> /\ phase = "load_nodes" /\ error = "" /\ call = NoCall
    /\ inputs = EmptyMap /\ bound = EmptyMap /\ bind_error = ""
    /\ read = NoRead /\ held = {} /\ argv = NoArgs

sortFrame == <<capabilities, relations, interfaces, data, pending, phase, call, bindVars, topoVars>>

\* _derived_sort: graph = {n: [base] or []}, then topological_sort's first lines
DerivedSort ==
    /\ pc = "derived_sort"
    /\ graph_unsorted' = DerivedGraph(DOMAIN data, data)
    /\ graph_sorted' = <<>>
    /\ pc' = "while"
    /\ UNCHANGED <<nodes, order, error, sortFrame>>

\* one pass of the while loop that removed a node
SortPass ==
    /\ pc = "while" /\ DOMAIN graph_unsorted # {}
    /\ \E ks \in Orderings(DOMAIN graph_unsorted) :
        LET r == ForPass(Items(graph_unsorted, ks), graph_unsorted, graph_sorted, FALSE)
        IN  /\ r.acyclic
            /\ graph_unsorted' = r.unsorted
            /\ graph_sorted' = r.sorted
    /\ UNCHANGED <<nodes, order, pc, error, sortFrame>>

\* one pass that removed none: raise RuntimeError
SortRaise ==
    /\ pc = "while" /\ DOMAIN graph_unsorted # {}
    /\ \E ks \in Orderings(DOMAIN graph_unsorted) :
        ~ForPass(Items(graph_unsorted, ks), graph_unsorted, graph_sorted, FALSE).acyclic
    /\ pc' = "raised"
    /\ error' = "RuntimeError"
    /\ UNCHANGED <<nodes, order, graph_unsorted, graph_sorted, sortFrame>>

\* return graph_sorted; _derived_sort keeps the names
SortReturn ==
    /\ pc = "while" /\ DOMAIN graph_unsorted = {}
    /\ order' = [i \in DOMAIN graph_sorted |-> graph_sorted[i][1]]
    /\ pc' = "construct"
    /\ UNCHANGED <<nodes, graph_unsorted, graph_sorted, error, sortFrame>>

\* the body of load_nodes' loop for the next name
Construct ==
    /\ pc = "construct" /\ order # <<>>
    /\ LET n == Head(order)
           cls == NodeClass(nodes, n, data[n])
       IN  /\ cls # TypeError
           /\ nodes' = Register(BaseAfter("nodes", nodes, data[n]), n, cls)
    /\ order' = Tail(order)
    /\ UNCHANGED <<graph_unsorted, graph_sorted, pc, error, sortFrame>>

LoadReturn ==
    /\ pc = "construct" /\ order = <<>>
    /\ pc' = "done"
    /\ UNCHANGED <<nodes, order, graph_unsorted, graph_sorted, error, sortFrame>>

NextSort ==
    \/ DerivedSort
    \/ SortPass
    \/ SortRaise
    \/ SortReturn
    \/ Construct
    \/ LoadReturn

SpecSort == InitSort /\ [][NextSort]_vars

Sorted == [i \in DOMAIN graph_sorted |-> graph_sorted[i][1]]

\* C4: for an acyclic batch the sort returns (it does not raise) every name
\* of the batch exactly once, each after its parent when the parent is in
\* the batch, whatever parents lie outside it; and every class load_nodes
\* then builds derives from the class just registered for its parent.
C4_ParentsFirst ==
    /\ pc = "raised" => HasCycle(DOMAIN data, data)
    /\ pc \in {"construct", "done"} =>
        /\ Range(Sorted) = DOMAIN data
        /\ Len(Sorted) = Cardinality(DOMAIN data)
        /\ \A i \in DOMAIN Sorted :
            ParentIn(DOMAIN data, data, Sorted[i]) # NoBase =>
                \E j \in 1..(i - 1) : Sorted[j] = ParentIn(DOMAIN data, data, Sorted[i])
        /\ \A n \in DOMAIN data \ Range(order) :
            ParentIn(DOMAIN data, data, n) # NoBase =>
                /\ n \in DOMAIN nodes
                /\ nodes[n].base = nodes[ParentIn(DOMAIN data, data, n)]

\* a batch of three types in a chain, the first derived from a type outside
\* the batch, has been loaded
C4_Witness ==
    /\ pc = "done"
    /\ \E a, b, c \in DOMAIN data :
        /\ ParentIn(DOMAIN data, data, c) = b
        /\ ParentIn(DOMAIN data, data, b) = a
        /\ "derived_from" \in DOMAIN data[a] /\ data[a].derived_from = Elsewhere
        /\ nodes[c].base.base = nodes[a]

(***************************************************************************)
(* Topology inputs: Value / Input (src/pytosca/tosca.py:341-373),          *)
(* Tosca.get_input and bind_inputs (640-651), and the read of a property   *)
(* whose raw value is {get_input: name} (Property 285-304, ValueResolver   *)
(* 207-216, 269-282).                                                      *)
(***************************************************************************)
ValueError == [shape |-> "ValueError"]
AssertionError == [shape |-> "AssertionError"]

\* Tosca.get_input(name) on the document's inputs section: None when
\* .get(name) is None, else an Input(name, attrs) holding the section's own
\* attrs dict
get_input(ins, name) ==
    LET value == DictGet(ins, name, None)
    IN  IF value = None THEN value ELSE [name |-> name, attrs |-> value]

\* Value.value: self.attrs.get('value')
Value_value(input) == DictGet(input.attrs, "value", None)

\* Value.default: self.attrs.get('default')
Value_default(input) == DictGet(input.attrs, "default", None)

\* set_value that keeps the value on the Input object, not in attrs
set_value_private(attrs, v) ==
    IF "value" \in DOMAIN attrs THEN AssertionError ELSE attrs

\* set_value without its assert
set_value_overwrite(attrs, v) == DictSet(attrs, "value", v)

\* Value.set_value(value): the attrs dict after it, or AssertionError
set_value(attrs, v) ==
    IF "value" \in DOMAIN attrs THEN AssertionError ELSE DictSet(attrs, "value", v)

\* the loop body with an undeclared name passed over
BindOneSkipUnknown(ins, k, v) ==
    IF get_input(ins, k) = None THEN [inputs |-> ins, error |-> ""]
    ELSE IF "value" \in DOMAIN ins[k] THEN [inputs |-> ins, error |-> "AssertionError"]
    ELSE [inputs |-> DictSet(ins, k, DictSet(ins[k], "value", v)), error |-> ""]

\* the body of bind_inputs' loop for (k, v): the inputs section after it and
\* the exception it raised.  The Input's attrs is the section's dict, so
\* what set_value writes is written into the document.
BindOne(ins, k, v) ==
    LET input == get_input(ins, k)
    IN  IF input = None THEN [inputs |-> ins, error |-> "ValueError"]
        ELSE LET attrs == set_value(input.attrs, v)
             IN  IF attrs = AssertionError THEN [inputs |-> ins, error |-> "AssertionError"]
                 ELSE [inputs |-> DictSet(ins, k, attrs), error |-> ""]

RECURSIVE bind_inputs(_, _, _)
\* bind_inputs(values), values.items() visited in the order ks of its keys
bind_inputs(ins, ks, values) ==
    IF ks = <<>> THEN [inputs |-> ins, error |-> ""]
    ELSE LET r == BindOne(ins, Head(ks), values[Head(ks)])
         IN  IF r.error # "" THEN r ELSE bind_inputs(r.inputs, Tail(ks), values)

\* bool(v) is False
Falsy(v) ==
    \/ v = None
    \/ v = PyInt(0)
    \/ v = Dict(EmptyMap)
    \/ v = List(<<>>)
    \/ v = [shape |-> "str", s |-> <<>>]

\* Property.__init__: self._value = value or self.default
Property(value, default) == [_value |-> IF Falsy(value) THEN default ELSE value]

(***************************************************************************)
(* The topology's entities.  A topology t is [types, data, inputs]: the    *)
(* hierarchy, the document (node_templates, outputs) and its inputs        *)
(* section.  A string that names a template or a type is Str(s), s the     *)
(* sequence of its dotted segments; slot, capability, property and         *)
(* operation names are keys.  An operation returns Ok(v) or Raise(e).      *)
(***************************************************************************)
Str(s) == [shape |-> "str", s |-> s]
Ok(v) == [error |-> "", value |-> v]
Raise(e) == [error |-> e, value |-> None]

\* the depth of nested reads at which the interpreter gives up
RecursionLimit == 3

\* some order of the keys of a dict, for loops whose outcome does not depend
\* on the order
KeyList(S) == CHOOSE ks \in Orderings(S) : TRUE

\* Entity.__init__(name, data, topology), as an instance of the class cls
Entity(cls, name, d) == [kind |-> "entity", cls |-> cls, name |-> name, data |-> d]

\* InterfaceOperation.__init__(name, data, topology, properties)
InterfaceOperation(name, d, properties) ==
    [kind |-> "operation", name |-> name, data |-> d, _properties |-> properties]

\* Output.__init__(name, attrs, topology)
Output(name, attrs) == [kind |-> "output", name |-> name, attrs |-> attrs]

IsInstance(e, kind) == e.kind = "entity" /\ e.cls.kind = kind

\* Tosca.get_template(name)
get_template(t, name) ==
    LET value == DictGet(DictGet(t.data, "node_templates", EmptyMap), name, None)
    IN  IF value = None THEN Ok(None)
        ELSE LET node_cls == get(t.types, value.type, FALSE, ENTITY_KINDS)
             IN  IF node_cls = None THEN Raise("TypeError")
                 ELSE Ok(Entity(node_cls, name, value))

\* Tosca.get_output(name)
get_output(t, name) ==
    LET value == DictGet(DictGet(t.data, "outputs", EmptyMap), name, None)
    IN  IF value = None THEN None ELSE Output(name, value)

framework ==
    {"interfaces", "relationship_type", "derived_from", "constraints",
     "lower_bound", "upper_bound", "type"}

\* get_named_slot with an entry of no key of its own accepted under ""
get_named_slot_lenient(req) ==
    IF Cardinality(DOMAIN req \ framework) > 1
    THEN [error |-> "ValueError: Ambigious relation name", name |-> ""]
    ELSE IF DOMAIN req \ framework = {} THEN [error |-> "", name |-> ""]
    ELSE [error |-> "", name |-> CHOOSE k \in DOMAIN req \ framework : TRUE]

\* get_named_slot(req): [error, name]
get_named_slot(req) ==
    LET remainder == DOMAIN req \ framework
    IN  IF Cardinality(remainder) # 1
        THEN [error |-> "ValueError: Ambigious relation name", name |-> ""]
        ELSE [error |-> "", name |-> CHOOSE k \in remainder : TRUE]

\* _get_relation_class that takes ConnectsTo for every slot
get_relation_class_connects(t, name, type_req, template_data) ==
    get(t.types, <<"ConnectsTo">>, FALSE, ENTITY_KINDS)

\* Node._get_relation_class(name, type_req, template_data): a class or None
_get_relation_class(t, name, type_req, template_data) ==
    LET rel_type == DictGet(template_data, "relation_type", None)
    IN  IF ~Falsy(rel_type) THEN get(t.types, rel_type.s, FALSE, ENTITY_KINDS)
        ELSE IF name = "host" THEN get(t.types, <<"HostedOn">>, FALSE, ENTITY_KINDS)
        ELSE IF name = "dependency" THEN get(t.types, <<"DependsOn">>, FALSE, ENTITY_KINDS)
        ELSE get(t.types, <<"ConnectsTo">>, FALSE, ENTITY_KINDS)

RECURSIVE TemplateReqs(_, _)
\* Node.requirements, its first loop: template_reqs, slot name -> entry
TemplateReqs(entries, acc) ==
    IF entries = <<>> THEN [error |-> "", map |-> acc]
    ELSE LET slot == get_named_slot(Head(entries))
         IN  IF slot.error # "" THEN [error |-> slot.error, map |-> acc]
             ELSE TemplateReqs(Tail(entries), DictSet(acc, slot.name, Head(entries)))

RECURSIVE RequirementsLoop(_, _, _, _)
\* Node.requirements, its second loop over self._requirements
RequirementsLoop(t, reqs, template_reqs, acc) ==
    IF reqs = <<>> THEN Ok(List(acc))
    ELSE LET slot == get_named_slot(Head(reqs))
             d == DictGet(template_reqs, slot.name, EmptyMap)
             req == DictUpdate(Head(reqs), d)
             rel_class == _get_relation_class(t, slot.name, req, d)
         IN  IF slot.error # "" THEN Raise(slot.error)
             ELSE IF rel_class = None \/ rel_class.kind = "interfaces" THEN Raise("TypeError")
             ELSE RequirementsLoop(t, Tail(reqs), template_reqs,
                                   Append(acc, Entity(rel_class, slot.name, req)))

\* Node.requirements with req.update(data) on the entry of the class itself
requirements_in_place(node, template_reqs) ==
    List([i \in DOMAIN node.cls._requirements.l |->
            DictUpdate(node.cls._requirements.l[i],
                       DictGet(template_reqs,
                               get_named_slot(node.cls._requirements.l[i]).name, EmptyMap))])

\* Node.requirements: what it leaves of self._requirements, the entries of
\* the class.  req = dict(req) makes req a copy, so req.update(data) writes
\* into the copy and the entries are as they were.
requirements_leaves(node, template_reqs) == node.cls._requirements

\* Node.requirements
requirements(t, node) ==
    LET template_reqs == TemplateReqs(DictGet(node.data, "requirements", <<>>), EmptyMap)
    IN  IF ~IsInstance(node, "nodes") THEN Raise("AttributeError")
        ELSE IF template_reqs.error # "" THEN Raise(template_reqs.error)
        ELSE IF node.cls._requirements.shape # "list" THEN Raise("TypeError")
        ELSE RequirementsLoop(t, node.cls._requirements.l, template_reqs.map, <<>>)

\* entity_name.startswith('tosca.')
StartsWithTosca(name) == Len(name) > 1 /\ name[1] = "tosca"

\* Relation.target that follows the node key of a mapping
target_through_mapping(t, rel) ==
    LET entity_name == rel.data[rel.name]
    IN  IF entity_name.shape = "str"
        THEN IF StartsWithTosca(entity_name.s) THEN Ok(None)
             ELSE get_template(t, entity_name.s)
        ELSE IF entity_name.shape = "dict" /\ "node" \in DOMAIN entity_name.d
        THEN get_template(t, entity_name.d.node.s)
        ELSE Ok(None)

\* Relation.target
target(t, rel) ==
    IF ~IsInstance(rel, "relations") THEN Raise("AttributeError")
    ELSE LET entity_name == rel.data[rel.name]
         IN  IF entity_name.shape = "str"
             THEN IF StartsWithTosca(entity_name.s) THEN Ok(None)
                  ELSE get_template(t, entity_name.s)
             ELSE Ok(None)

\* Node.get_capability(name)
get_capability(t, node, name) ==
    LET ctype_info == DictGet(node.cls._capabilities.d, name, None)
        capability_class == get(t.types, ctype_info.type, FALSE, ENTITY_KINDS)
        template_capabilities == DictGet(node.data, "capabilities", EmptyMap)
    IN  IF ctype_info = None THEN Ok(None)
        ELSE IF capability_class = None THEN Raise("TypeError")
        ELSE Ok(Entity(capability_class, name, DictGet(template_capabilities, name, EmptyMap)))

\* Node.capabilities
capabilities_of(t, node) ==
    IF ~IsInstance(node, "nodes") \/ node.cls._capabilities.shape # "dict"
    THEN Raise("AttributeError")
    ELSE LET names == KeyList(DOMAIN node.cls._capabilities.d)
         IN  IF \E i \in DOMAIN names : get_capability(t, node, names[i]).error # ""
             THEN Raise("TypeError")
             ELSE Ok(List([i \in DOMAIN names |-> get_capability(t, node, names[i]).value]))

\* whether c is a PropertyContainer whose schema and template data can be read
HasProperties(c) ==
    IF c.kind = "operation" THEN c.data.shape = "dict" /\ c._properties.shape = "dict"
    ELSE /\ c.kind = "entity" /\ c.cls.kind \in {"nodes", "capabilities"}
         /\ c.cls._properties.shape = "dict"

\* getattr(self, self._property_attr)
SchemaOf(c) == IF c.kind = "operation" THEN c._properties.d ELSE c.cls._properties.d

\* self.data.get(self._property_key, {})
TemplateProperties(c) ==
    IF c.kind = "operation" THEN DictGet(c.data.d, "input", EmptyMap)
    ELSE DictGet(c.data, "properties", EmptyMap)

\* Property(k, topology=..., value=v, **schema) followed by
\* p.set_parent(self._parent or self); _parent is never set on a container
PropertyOf(c, k) ==
    [kind |-> "property", name |-> k, parent |-> c,
     _value |-> Property(DictGet(TemplateProperties(c), k, None),
                         DictGet(SchemaOf(c)[k], "default", None))._value]

\* PropertyContainer.properties
properties(c) ==
    IF ~HasProperties(c) THEN Raise("AttributeError")
    ELSE LET names == KeyList(DOMAIN SchemaOf(c))
         IN  Ok(List([i \in DOMAIN names |-> PropertyOf(c, names[i])]))

\* PropertyContainer.get_property(name)
get_property(c, name) ==
    IF ~HasProperties(c) THEN Raise("AttributeError")
    ELSE IF name \notin DOMAIN SchemaOf(c) THEN Ok(None)
    ELSE Ok(PropertyOf(c, name))

RECURSIVE Property_value(_, _, _)
RECURSIVE resolve(_, _, _, _)
RECURSIVE get_ref_property(_, _, _, _, _, _)
RECURSIVE ValueResolver_get_property(_, _, _, _, _)

\* the property named name in a list of properties, None when there is none
Named(props, name) ==
    IF \E i \in DOMAIN props : props[i].name = name
    THEN props[CHOOSE i \in DOMAIN props : props[i].name = name]
    ELSE None

\* ValueResolver.get_input(self, input_name)
ValueResolver_get_input(t, self, input_name) ==
    IF get_input(t.inputs, input_name) = None THEN Raise("ValueError: Unknown input")
    ELSE Ok(Value_value(get_input(t.inputs, input_name)))

\* get_ref_property from the first requirement named slot_name on: the body
\* of its loop for that requirement
RefBody(t, req, capability, property_name, depth) ==
    LET tgt == target(t, req)
        p == get_property(tgt.value, property_name)
        caps == capabilities_of(t, tgt.value)
        c == Named(caps.value.l, capability)
        cprops == properties(c)
        cp == Named(cprops.value.l, property_name)
    IN  IF tgt.error # "" THEN tgt
        ELSE IF tgt.value = None THEN Raise("AttributeError")
        ELSE IF capability = "" THEN
            IF p.error # "" THEN p
            ELSE IF p.value # None THEN Property_value(t, p.value, depth)
            ELSE Raise("ValueError: Unknown property")
        ELSE IF caps.error # "" THEN caps
        ELSE IF c = None THEN Raise("ValueError: Unknown capability property")
        ELSE IF cprops.error # "" THEN cprops
        ELSE IF cp = None THEN Raise("ValueError: Unknown capability property")
        ELSE Property_value(t, cp, depth)

\* ValueResolver.get_ref_property(self, slot_name, capability, property_name);
\* capability is "" in the two-argument form
get_ref_property(t, self, slot_name, capability, property_name, depth) ==
    LET template == self.parent
        reqs == requirements(t, template)
    IN  IF self.kind # "property" THEN Raise("AssertionError")
        ELSE IF ~IsInstance(template, "nodes") THEN Raise("AttributeError")
        ELSE IF reqs.error # "" THEN reqs
        ELSE IF \A i \in DOMAIN reqs.value.l : reqs.value.l[i].name # slot_name
        THEN Raise("ValueError: Unknown requirement slot")
        ELSE RefBody(t, reqs.value.l[CHOOSE i \in DOMAIN reqs.value.l :
                                        /\ reqs.value.l[i].name = slot_name
                                        /\ \A j \in 1..(i - 1) : reqs.value.l[j].name # slot_name],
                     capability, property_name, depth)

\* ValueResolver.get_property(self, entity_name, property_name)
ValueResolver_get_property(t, self, entity_name, property_name, depth) ==
    LET entity == get_template(t, entity_name)
        props == properties(entity.value)
        p == Named(props.value.l, property_name)
    IN  IF entity.error # "" THEN entity
        ELSE IF entity.value = None THEN Raise("ValueError: Unknown entity")
        ELSE IF props.error # "" THEN props
        ELSE IF p = None THEN Raise("ValueError: Unknown entity property")
        ELSE Property_value(t, p, depth)

\* ValueResolver.resolve(property, value), value the dict's items.  The last
\* branch's message has one %s for two arguments, which is a TypeError.
resolve(t, self, value, depth) ==
    IF "get_input" \in DOMAIN value
    THEN ValueResolver_get_input(t, self, value.get_input)
    ELSE IF "get_ref_property" \in DOMAIN value
    THEN LET args == value.get_ref_property
         IN  IF Len(args) = 2 THEN get_ref_property(t, self, args[1], "", args[2], depth)
             ELSE IF Len(args) = 3
             THEN get_ref_property(t, self, args[1], args[2], args[3], depth)
             ELSE Raise("TypeError")
    ELSE IF "get_property" \in DOMAIN value
    THEN LET args == value.get_property
         IN  IF Len(args) = 2
             THEN ValueResolver_get_property(t, self, args[1], args[2], depth)
             ELSE Raise("TypeError")
    ELSE Raise("TypeError")

\* Property.value, read with depth nested reads left before the interpreter's
\* recursion limit
Property_value(t, p, depth) ==
    IF p._value.shape # "dict" THEN Ok(p._value)
    ELSE IF depth = 0 THEN Raise("RuntimeError: maximum recursion depth exceeded")
    ELSE resolve(t, p, p._value.d, depth - 1)

\* Output.value
Output_value(t, out, depth) ==
    IF "value" \notin DOMAIN out.attrs THEN Raise("KeyError")
    ELSE IF out.attrs.value.shape # "dict" THEN Ok(out.attrs.value)
    ELSE IF depth = 0 THEN Raise("RuntimeError: maximum recursion depth exceeded")
    ELSE resolve(t, out, out.attrs.value.d, depth - 1)

\* InterfaceType.operations
operations(interface_type) == DOMAIN interface_type.data

\* the operations with the interface's own fragment in place of each
\* operation's
OperationsWithWholeFragment(ops, template_data, idata) ==
    Ok(List([i \in DOMAIN ops |->
        InterfaceOperation(ops[i], Dict(template_data), DictGet(idata, "inputs", None))]))

\* Node.interfaces, its loop: one InterfaceOperation per operation
OperationsOf(ops, template_data, idata) ==
    Ok(List([i \in DOMAIN ops |->
        InterfaceOperation(ops[i], DictGet(template_data, ops[i], Dict(EmptyMap)),
                           DictGet(idata, "inputs", None))]))

\* Node.interfaces; first is the key that self._interfaces.keys()[0] gives
\* when _interfaces is a dict
interfaces_of(t, node, first) ==
    LET ifs == node.cls._interfaces
        idata == IF ifs.shape = "list" THEN EmptyMap ELSE ifs.d[first]
        interface_type ==
            get(t.types, IF ifs.shape = "list" THEN ifs.l[1] ELSE first, FALSE, <<"interfaces">>)
        template_data == DictGet(node.data, "interfaces", EmptyMap)
    IN  IF ~IsInstance(node, "nodes") \/ ifs = None THEN Raise("AttributeError")
        ELSE IF ifs.shape = "list" /\ ifs.l = <<>> THEN Raise("IndexError")
        ELSE IF ifs.shape = "dict" /\ ifs.d = EmptyMap THEN Raise("IndexError")
        ELSE IF interface_type = None THEN Raise("AttributeError")
        ELSE OperationsOf(KeyList(operations(interface_type)), template_data, idata)

\* the keys self._interfaces.keys()[0] may give
FirstKeys(node) ==
    IF node.kind = "entity" /\ node.cls.kind = "nodes" /\ node.cls._interfaces.shape = "dict"
       /\ node.cls._interfaces.d # EmptyMap
    THEN DOMAIN node.cls._interfaces.d
    ELSE {<<>>}

\* Node.validate.  Relation, InterfaceOperation and Capability validate all
\* return []; the second loop calls r.validate(), r the last requirement of
\* the first loop, unbound when there was none.
validate(t, node, first) ==
    LET reqs == requirements(t, node)
        props == properties(node)
        ifaces == interfaces_of(t, node, first)
        caps == capabilities_of(t, node)
    IN  IF reqs.error # "" THEN reqs
        ELSE IF props.error # "" THEN props
        ELSE IF props.value.l # <<>> /\ reqs.value.l = <<>> THEN Raise("UnboundLocalError")
        ELSE IF ifaces.error # "" THEN ifaces
        ELSE IF caps.error # "" THEN caps
        ELSE Ok(List(<<>>))

\* the topology in the current state
Topology ==
    [types |-> Hierarchy, data |-> data, inputs |-> inputs]

\* the most items a bind_inputs mapping has
MaxBind == 2

\* the inputs a document may declare, and a name no document declares
InputNames == {"cpus", "db_port"}
BindNames == InputNames \cup {"db_user"}

\* what a document gives for an input: its attributes, or nothing (null)
InputAttrs ==
    { None,
      [type |-> "number", description |-> "an input"],
      [type |-> "number", description |-> "an input", default |-> PyInt(1)] }

\* the values bound: null, a false integer and a true one
BindValues == {None, PyInt(0), PyInt(1)}

\* the mappings bind_inputs is called with
BindMappings ==
    UNION { [S -> BindValues] : S \in {T \in SUBSET BindNames : Cardinality(T) <= MaxBind} }

\* a topology whose document declares some of the inputs, none bound
InitBind ==
    /\ inputs \in UNION { [S -> InputAttrs] : S \in SUBSET InputNames }
    /\ bound = [values |-> EmptyMap, items |-> <<>>]
    /\ bind_error = ""
    /\ nodes = EmptyMap /\ capabilities = EmptyMap
    /\ relations = EmptyMap /\ interfaces = EmptyMap
    /\ data = EmptyMap /\ pending = <<>> /\ phase = "ready" /\ error = "" /\ call = NoCall
    /\ graph_unsorted = EmptyMap /\ graph_sorted = <<>> /\ order = <<>> /\ pc = "idle"
    /\ read = NoRead /\ held = {} /\ argv = NoArgs

\* topology.bind_inputs(values), values one of mappings
BindFrom(mappings) ==
    /\ phase = "ready"
    /\ \E values \in mappings : \E ks \in Orderings(DOMAIN values) :
        LET r == bind_inputs(inputs, ks, values)
        IN  /\ inputs' = r.inputs
            /\ bind_error' = r.error
            /\ bound' = [values |-> values, items |-> ks]
    /\ UNCHANGED <<typeVars, sortVars, topoVars>>

BindInputs == BindFrom(BindMappings)

NextBind == BindInputs

SpecBind == InitBind /\ [][NextBind]_vars

(***************************************************************************)
(* Properties of input binding, checked under SpecBind.  Every step of     *)
(* SpecBind is one bind_inputs call: bound' is the mapping it was given    *)
(* and the order its items were visited in, inputs the section before it.  *)
(***************************************************************************)
Declared(ins, n) == n \in DOMAIN ins
Known(ins, n) == get_input(ins, n) # None
IsBound(ins, n) == Known(ins, n) /\ "value" \in DOMAIN ins[n]

\* the first item of the call that cannot be bound
FirstRefused(ins, items) ==
    items[CHOOSE i \in DOMAIN items :
            /\ ~Known(ins, items[i]) \/ IsBound(ins, items[i])
            /\ \A j \in 1..(i - 1) : Known(ins, items[j]) /\ ~IsBound(ins, items[j])]

\* a property whose raw value is {get_input: n}
GetInputProperty(n) == Property(Dict([get_input |-> n]), None)

\* C8: after a bind_inputs that succeeds, each input n it names reads as
\* the value given, through get_input(n).value and through a property
\* whose raw value is {get_input: n}; the inputs it does not name are as
\* before; and a bound input reads the same after every later call.
C8_BoundValueRead ==
    [][ /\ bind_error' = "" =>
            /\ \A n \in DOMAIN bound'.values :
                /\ Value_value(get_input(inputs', n)) = bound'.values[n]
                /\ Property_value(Topology', GetInputProperty(n), RecursionLimit)
                     = Ok(bound'.values[n])
            /\ \A n \in DOMAIN inputs \ DOMAIN bound'.values : inputs'[n] = inputs[n]
        /\ \A n \in DOMAIN inputs :
            IsBound(inputs, n) =>
                /\ IsBound(inputs', n)
                /\ Value_value(get_input(inputs', n)) = Value_value(get_input(inputs, n))
      ]_vars

\* a call naming only db_port has succeeded while cpus, bound to 0 by an
\* earlier call, still reads 0
C8_Witness ==
    /\ bind_error = ""
    /\ DOMAIN bound.values = {"db_port"}
    /\ IsBound(inputs, "db_port")
    /\ Value_value(get_input(inputs, "db_port")) = bound.values["db_port"]
    /\ IsBound(inputs, "cpus")
    /\ Value_value(get_input(inputs, "cpus")) = PyInt(0)

HasUndeclared(ins, values) == \E n \in DOMAIN values : ~Declared(ins, n)
HasBound(ins, values) == \E n \in DOMAIN values : IsBound(ins, n)

\* C9 as claimed: a bind_inputs whose mapping has an undeclared name fails
\* with the unknown-input error; get_input of an undeclared name is None.
C9_UnknownInputError ==
    [][ HasUndeclared(inputs, bound'.values) =>
            /\ bind_error' = "ValueError"
            /\ \A n \in DOMAIN bound'.values :
                ~Declared(inputs, n) => get_input(inputs', n) = None
      ]_vars

\* C9 as amended: such a call never succeeds; it fails with the
\* unknown-input error when the first item it cannot bind is an undeclared
\* name, and with the already-bound error when that item is an input bound
\* before; get_input of an undeclared name is None.
C9_UndeclaredRejected ==
    [][ HasUndeclared(inputs, bound'.values) =>
            /\ bind_error' =
                 IF Known(inputs, FirstRefused(inputs, bound'.items))
                 THEN "AssertionError" ELSE "ValueError"
            /\ \A n \in DOMAIN bound'.values :
                ~Declared(inputs, n) => get_input(inputs', n) = None
      ]_vars

\* a call has bound its first item and failed on its second, undeclared one
C9_Witness ==
    /\ bind_error = "ValueError"
    /\ Len(bound.items) = 2
    /\ ~Declared(inputs, bound.items[2])
    /\ IsBound(inputs, bound.items[1])
    /\ get_input(inputs, bound.items[2]) = None

\* C10 as claimed: a bind_inputs whose mapping names an input bound before
\* fails with the already-bound error, and the input keeps its value.
C10_AlreadyBoundError ==
    [][ HasBound(inputs, bound'.values) =>
            /\ bind_error' = "AssertionError"
            /\ \A n \in DOMAIN bound'.values :
                IsBound(inputs, n) =>
                    Value_value(get_input(inputs', n)) = Value_value(get_input(inputs, n))
      ]_vars

\* C10 as amended: such a call never succeeds; it fails with the
\* already-bound error when the first item it cannot bind is the bound
\* input, and with the unknown-input error when that item is an undeclared
\* name; the bound input keeps its value.
C10_ReboundRejected ==
    [][ HasBound(inputs, bound'.values) =>
            /\ bind_error' =
                 IF IsBound(inputs, FirstRefused(inputs, bound'.items))
                 THEN "AssertionError" ELSE "ValueError"
            /\ \A n \in DOMAIN bound'.values :
                IsBound(inputs, n) =>
                    Value_value(get_input(inputs', n)) = Value_value(get_input(inputs, n))
      ]_vars

\* a call that gave a bound input another value has failed with the
\* already-bound error
C10_Witness ==
    /\ bind_error = "AssertionError"
    /\ \E n \in DOMAIN bound.values :
        /\ IsBound(inputs, n)
        /\ Value_value(get_input(inputs, n)) # bound.values[n]

\* C28: bind_inputs is all-or-nothing: a call either binds every name of
\* its mapping to the value given for it, or fails and leaves every input
\* exactly as it was before the call.
C28_AllOrNothing ==
    [][ IF bind_error' = ""
        THEN \A n \in DOMAIN bound'.values :
                IsBound(inputs', n) /\ inputs'[n].value = bound'.values[n]
        ELSE inputs' = inputs
      ]_vars

\* C11: resolving get_input(n) for a declared input n gives n's bound value
\* when n is bound, n's declared default when n is unbound and has one, and
\* None when n is unbound and has none.
C11_InputValueOrDefault ==
    \A n \in DOMAIN inputs :
        Known(inputs, n) =>
            ValueResolver_get_input(Topology, GetInputProperty(n), n) =
                Ok(IF IsBound(inputs, n) THEN inputs[n].value
                   ELSE IF "default" \in DOMAIN inputs[n]
                        THEN Value_default(get_input(inputs, n))
                   ELSE None)

(***************************************************************************)
(* A loaded topology: Tosca.__init__ on a document with node templates,    *)
(* then the reads its callers make of it (src/pytosca/tosca.py:594-719).   *)
(***************************************************************************)
NCompute == <<"tosca", "nodes", "Compute">>
NDatabase == <<"tosca", "nodes", "Database">>
NWebApp == <<"tosca", "nodes", "WebApp">>
RDependsOn == <<"tosca", "relations", "DependsOn">>
RConnectsTo == <<"tosca", "relations", "ConnectsTo">>
IConfigure == <<"tosca", "interfaces", "relationship", "Configure">>
MyBare == <<"my", "Bare">>
MyPlain == <<"my", "Plain">>
MyAmbiguous == <<"my", "Ambiguous">>
MyUnnamed == <<"my", "Unnamed">>
MyTwo == <<"my", "Two">>
MyUnknown == <<"my", "Unknown">>

\* the schema every topology loads (tosca_schema.yaml), cut to the types the
\* templates below use
TopoSchema ==
    (NCompute :> [properties |-> Dict([ip_address |-> [type |-> "string"],
                                       num_cpus |-> [type |-> "integer", default |-> PyInt(1)]])])
    @@ (NDatabase :>
         [properties |-> Dict([db_password |-> [type |-> "string"]]),
          capabilities |-> Dict([database_endpoint |-> [type |-> CEndpoint]]),
          requirements |-> List(<<[host |-> Str(NCompute)]>>),
          interfaces |-> List(<<ILifecycle>>)])
    @@ (NWebApp :>
         [properties |-> Dict([db_host |-> [type |-> "string", required |-> TRUE,
                                            constraints |->
                                              List(<<[valid_values |->
                                                        List(<<Str(<<"db", "internal">>)>>)]>>)],
                               db_port |-> [type |-> "integer", default |-> PyInt(1)]]),
          requirements |-> List(<<[host |-> Str(NCompute)],
                                  [database_endpoint |-> Str(CEndpoint)],
                                  [dependency |-> Str(CRoot)]>>),
          interfaces |-> Dict([k \in {<<"Lifecycle">>} |->
                                 [inputs |-> Dict([db_password |-> [type |-> "string"]])]])])
    @@ (CRoot :> EmptyMap)
    @@ (CEndpoint :> [derived_from |-> CRoot,
                      properties |-> Dict([port |-> [type |-> "integer"],
                                           via_host |-> [type |-> "integer"]])])
    @@ (RRoot :> EmptyMap)
    @@ (RHostedOn :> [derived_from |-> RRoot])
    @@ (RDependsOn :> [derived_from |-> RRoot])
    @@ (RConnectsTo :> [derived_from |-> RRoot])
    @@ (ILifecycle :> [create |-> [description |-> "create"],
                       configure |-> [description |-> "configure"]])
    @@ (IConfigure :> [pre_configure |-> [description |-> "pre"]])

\* the node types the document itself defines
TopoNodeTypes ==
    (MyBare :> EmptyMap)
    @@ (MyPlain :> [requirements |-> List(<<[host |-> Str(NCompute)]>>),
                    interfaces |-> List(<<ILifecycle>>)])
    @@ (MyAmbiguous :> [derived_from |-> NWebApp,
                        requirements |-> List(<<[host |-> Str(NCompute),
                                                 port |-> Str(CEndpoint)]>>)])
    @@ (MyUnnamed :> [derived_from |-> NWebApp,
                      requirements |-> List(<<[type |-> Str(CEndpoint)]>>)])
    @@ (MyTwo :> [derived_from |-> NWebApp,
                  interfaces |-> Dict([k \in {<<"Configure">>} |-> EmptyMap])])

\* the hierarchies Tosca.__init__ leaves: load_schema, then the document's
\* node_types
TopoHierarchies ==
    { [nodes |-> n2.map, capabilities |-> c.map, relations |-> r.map, interfaces |-> i.map] :
        n2 \in UNION { load_nodes(n1.map, DOMAIN TopoNodeTypes, TopoNodeTypes) :
                        n1 \in load_nodes(EmptyMap, LoaderNames("load_schema", TopoSchema, "nodes"),
                                          TopoSchema) },
        c \in load_capabilities(EmptyMap, LoaderNames("load_schema", TopoSchema, "capabilities"),
                                TopoSchema),
        r \in load_relations(EmptyMap, LoaderNames("load_schema", TopoSchema, "relations"),
                             TopoSchema),
        i \in load_interfaces(EmptyMap, LoaderNames("load_schema", TopoSchema, "interfaces"),
                              TopoSchema) }

Server == <<"server">>
Db == <<"db">>
AppT == <<"app">>
Ghost == <<"ghost">>

\* what the app template may give as its requirements
AppRequirements ==
    { <<>>,
      <<[host |-> Str(Server)]>>,
      <<[host |-> Str(NCompute)]>>,
      <<[host |-> Str(Ghost)]>>,
      <<[host |-> Dict([node |-> Str(Server)])]>>,
      <<[host |-> Str(Server)], [database_endpoint |-> Str(Db)]>>,
      <<[host |-> Str(Server), relation_type |-> Str(RConnectsTo)]>>,
      <<[host |-> Str(Server)], [type |-> Str(CEndpoint)]>>,
      <<[host |-> Str(Server)], [extra |-> Str(Db)]>> }

GetRefProperty(args) == Dict([get_ref_property |-> args])
GetProperty(entity, name) == Dict([get_property |-> <<entity, name>>])

\* what the app template may give as the raw value of db_host
AppRawValues ==
    { None, PyInt(0), Str(<<"localhost">>),
      Dict([get_input |-> "cpus"]),
      GetRefProperty(<<"host", "ip_address">>),
      GetRefProperty(<<"host", "nosuch">>),
      GetRefProperty(<<"nosuch", "ip_address">>),
      GetRefProperty(<<"database_endpoint", "database_endpoint", "port">>),
      GetRefProperty(<<"database_endpoint", "database_endpoint", "nosuch">>),
      GetProperty(Server, "num_cpus"),
      GetProperty(AppT, "db_host") }

\* what the app template may give as its interfaces section
AppInterfaces ==
    { EmptyMap,
      [configure |-> Dict([implementation |-> Str(<<"configure", "sh">>),
                           input |-> [db_password |->
                                        GetRefProperty(<<"database_endpoint", "db_password">>)]])],
      [create |-> Str(<<"create", "sh">>),
       start |-> Dict([implementation |-> Str(<<"start", "sh">>)])] }

AppTypes == {NWebApp, MyBare, MyPlain, MyAmbiguous, MyUnnamed, MyTwo, MyUnknown}

\* the server template; the engine fills ip_address in after allocation
ServerTemplate == [type |-> NCompute, properties |-> EmptyMap]

\* the database template: hosted on the server, its endpoint's port taken
\* from an input and via_host from the server through the host slot
DbTemplate ==
    [type |-> NDatabase,
     properties |-> [db_password |-> Str(<<"secret">>)],
     requirements |-> <<[host |-> Str(Server)]>>,
     capabilities |-> [database_endpoint |->
                         [properties |-> [port |-> Dict([get_input |-> "cpus"]),
                                          via_host |-> GetRefProperty(<<"host", "num_cpus">>)]]]]

AppTemplate(ty, raw, reqs, ifs) ==
    [type |-> ty, properties |-> IF raw = None THEN EmptyMap ELSE [db_host |-> raw],
     requirements |-> reqs, interfaces |-> ifs]

\* the raw values that go through a requirement of the template to a property
\* its target has, in the two-argument and in the three-argument form
RefRawValues ==
    { GetRefProperty(<<"host", "ip_address">>),
      GetRefProperty(<<"database_endpoint", "database_endpoint", "port">>) }

\* a web application with every raw value, those that go through a
\* requirement over every requirements section, and every node type over
\* every interfaces section
AppTemplates ==
    { AppTemplate(NWebApp, raw, reqs, EmptyMap) : raw \in RefRawValues, reqs \in AppRequirements }
    \cup { AppTemplate(NWebApp, raw, <<[host |-> Str(Server)], [database_endpoint |-> Str(Db)]>>,
                       EmptyMap) : raw \in AppRawValues }
    \cup { AppTemplate(ty, None, <<[host |-> Str(Server)], [database_endpoint |-> Str(Db)]>>, ifs) :
                ty \in AppTypes, ifs \in AppInterfaces }

TopoOutputs ==
    [instance_ip |-> [description |-> "the server's address",
                      value |-> GetProperty(Server, "ip_address")]]

\* the documents a topology is built from
TopoDocuments ==
    { [node_templates |-> (Server :> ServerTemplate) @@ (Db :> DbTemplate) @@ (AppT :> app),
       node_types |-> TopoNodeTypes,
       outputs |-> TopoOutputs] : app \in AppTemplates }

TopoInputs == [cpus |-> [type |-> "number", description |-> "cpus", value |-> PyInt(1)]]

\* Tosca.__init__(data): the hierarchy is loaded and nothing has been read
InitTopo ==
    /\ data \in TopoDocuments
    /\ \E h \in TopoHierarchies :
        /\ nodes = h.nodes /\ capabilities = h.capabilities
        /\ relations = h.relations /\ interfaces = h.interfaces
    /\ inputs = TopoInputs
    /\ bound = [values |-> EmptyMap, items |-> <<>>] /\ bind_error = ""
    /\ pending = <<>> /\ phase = "ready" /\ error = "" /\ call = NoCall
    /\ graph_unsorted = EmptyMap /\ graph_sorted = <<>> /\ order = <<>> /\ pc = "idle"
    /\ read = NoRead /\ held = {} /\ argv = NoArgs

TemplateNames == DOMAIN data.node_templates

\* the names a caller asks for
PropertyNames ==
    {"ip_address", "num_cpus", "db_password", "db_host", "db_port", "port", "via_host", "nosuch"}
CapabilityNames == {"database_endpoint", "nosuch"}

topoFrame == <<nodes, capabilities, relations, interfaces, pending, phase, error, call,
               sortVars, bindVars, argv>>

\* topology.get_template(n).get_property(name).value
ReadProperty ==
    /\ phase = "ready"
    /\ \E n \in TemplateNames, name \in PropertyNames :
        LET node == get_template(Topology, n)
            p == get_property(node.value, name)
        IN  /\ node.error = "" /\ p.error = "" /\ p.value # None
            /\ read' = [op |-> "property", node |-> n, name |-> name, raw |-> p.value._value,
                        result |-> Property_value(Topology, p.value, RecursionLimit)]
    /\ UNCHANGED <<data, held, topoFrame>>

\* topology.get_template(n), which raises for a type that is not loaded
GetTemplate ==
    /\ phase = "ready"
    /\ \E n \in TemplateNames \cup {Ghost} :
        read' = [op |-> "get_template", node |-> n, result |-> get_template(Topology, n)]
    /\ UNCHANGED <<data, held, topoFrame>>

\* topology.get_template(n).requirements; the class of the template is
\* left with what the call leaves of its _requirements
ReadRequirements ==
    /\ phase = "ready"
    /\ \E n \in TemplateNames :
        LET node == get_template(Topology, n)
            reqs == requirements(Topology, node.value)
            template_reqs ==
                TemplateReqs(DictGet(node.value.data, "requirements", <<>>), EmptyMap).map
        IN  /\ node.error = ""
            /\ read' = [op |-> "requirements", node |-> n, result |-> reqs]
            /\ nodes' = IF reqs.error # "" THEN nodes
                        ELSE [k \in DOMAIN nodes |->
                                IF nodes[k] = node.value.cls
                                THEN [nodes[k] EXCEPT !._requirements =
                                         requirements_leaves(node.value, template_reqs)]
                                ELSE nodes[k]]
    /\ UNCHANGED <<data, held, capabilities, relations, interfaces, pending, phase, error,
                   call, sortVars, bindVars, argv>>

\* r.target, r one of topology.get_template(n).requirements
ReadTarget ==
    /\ phase = "ready"
    /\ \E n \in TemplateNames :
        LET node == get_template(Topology, n)
            reqs == requirements(Topology, node.value)
        IN  /\ node.error = "" /\ reqs.error = ""
            /\ \E i \in DOMAIN reqs.value.l :
                read' = [op |-> "target", node |-> n, rel |-> reqs.value.l[i],
                         result |-> target(Topology, reqs.value.l[i])]
    /\ UNCHANGED <<data, held, topoFrame>>

\* topology.get_template(n).interfaces
ReadInterfaces ==
    /\ phase = "ready"
    /\ \E n \in TemplateNames :
        LET node == get_template(Topology, n)
        IN  /\ node.error = ""
            /\ \E first \in FirstKeys(node.value) :
                read' = [op |-> "interfaces", node |-> n, first |-> first,
                         result |-> interfaces_of(Topology, node.value, first)]
    /\ UNCHANGED <<data, held, topoFrame>>

\* op.get_property(name).value, op one of topology.get_template(n).interfaces
ReadOperationInput ==
    /\ phase = "ready"
    /\ \E n \in TemplateNames, name \in PropertyNames :
        LET node == get_template(Topology, n)
        IN  /\ node.error = ""
            /\ \E first \in FirstKeys(node.value) :
                LET ops == interfaces_of(Topology, node.value, first)
                IN  /\ ops.error = ""
                    /\ \E i \in DOMAIN ops.value.l :
                        LET p == get_property(ops.value.l[i], name)
                        IN  /\ p.error = "" /\ p.value # None
                            /\ read' = [op |-> "operation_input", node |-> n,
                                        operation |-> ops.value.l[i].name, name |-> name,
                                        raw |-> p.value._value,
                                        result |-> Property_value(Topology, p.value,
                                                                  RecursionLimit)]
    /\ UNCHANGED <<data, held, topoFrame>>

\* topology.get_template(n).get_capability(cap).get_property(name).value
ReadCapabilityProperty ==
    /\ phase = "ready"
    /\ \E n \in TemplateNames, cap \in CapabilityNames, name \in PropertyNames :
        LET node == get_template(Topology, n)
            c == get_capability(Topology, node.value, cap)
            p == get_property(c.value, name)
        IN  /\ node.error = "" /\ node.value.cls._capabilities.shape = "dict"
            /\ c.error = "" /\ c.value # None
            /\ p.error = "" /\ p.value # None
            /\ read' = [op |-> "capability_property", node |-> n, capability |-> cap,
                        name |-> name, raw |-> p.value._value,
                        result |-> Property_value(Topology, p.value, RecursionLimit)]
    /\ UNCHANGED <<data, held, topoFrame>>

\* topology.get_template(n).validate()
Validate ==
    /\ phase = "ready"
    /\ \E n \in TemplateNames :
        LET node == get_template(Topology, n)
        IN  /\ node.error = ""
            /\ \E first \in FirstKeys(node.value) :
                read' = [op |-> "validate", node |-> n, first |-> first,
                         result |-> validate(Topology, node.value, first)]
    /\ UNCHANGED <<data, held, topoFrame>>

\* a caller obtains topology.get_output(name) and keeps the object
GetOutput ==
    /\ phase = "ready"
    /\ \E name \in DOMAIN data.outputs :
        held' = held \cup {get_output(Topology, name)}
    /\ UNCHANGED <<data, read, topoFrame>>

\* out.value on an Output object obtained earlier
ReadOutput ==
    /\ phase = "ready"
    /\ \E out \in held :
        read' = [op |-> "output", out |-> out,
                 result |-> Output_value(Topology, out, RecursionLimit)]
    /\ UNCHANGED <<data, held, topoFrame>>

\* the values the engine writes into a template after allocation
EngineValues == {Str(<<"192", "168", "1", "10">>), PyInt(0)}

\* server.data['properties']['ip_address'] = x, by the orchestration engine;
\* what was read before is of the document as it was
SetRawProperty ==
    /\ phase = "ready"
    /\ \E x \in EngineValues :
        data' = [data EXCEPT !.node_templates[Server].properties =
                                 DictSet(@, "ip_address", x)]
    /\ read' = NoRead
    /\ UNCHANGED <<held, topoFrame>>

NextTopo ==
    \/ ReadProperty
    \/ GetTemplate
    \/ ReadRequirements
    \/ ReadTarget
    \/ ReadInterfaces
    \/ ReadOperationInput
    \/ ReadCapabilityProperty
    \/ Validate
    \/ GetOutput
    \/ ReadOutput
    \/ SetRawProperty

SpecTopo == InitTopo /\ [][NextTopo]_vars

(***************************************************************************)
(* Properties of a loaded topology, checked under SpecTopo.  read is the   *)
(* last read made of the topology in its current state.                    *)
(***************************************************************************)
PropertyReads == {"property", "operation_input", "capability_property"}

IsRef(raw) == raw.shape = "dict" /\ "get_ref_property" \in DOMAIN raw.d

\* the template S's requirement named slot targets: the target of the first
\* relation of S with that name, None when there is no such relation, no
\* target, or an error on the way
SlotTarget(t, S, slot) ==
    LET node == get_template(t, S)
        reqs == requirements(t, node.value)
        named == {i \in DOMAIN reqs.value.l : reqs.value.l[i].name = slot}
        tgt == target(t, reqs.value.l[CHOOSE i \in named : \A j \in named : i <= j])
    IN  IF node.error # "" \/ node.value = None THEN None
        ELSE IF reqs.error # "" \/ named = {} THEN None
        ELSE IF tgt.error # "" THEN None
        ELSE tgt.value

\* the property the arguments of get_ref_property name on the target T:
\* T's own property in the two-argument form, the property of T's
\* capability in the three-argument form; None when there is none
ReferredProperty(t, T, args) ==
    LET c == get_capability(t, T, args[2])
        p == get_property(IF Len(args) = 2 THEN T ELSE c.value, args[Len(args)])
    IN  IF Len(args) = 3 /\ (c.error # "" \/ c.value = None) THEN None
        ELSE IF p.error # "" THEN None
        ELSE p.value

\* C12: a property of template S, of one of S's interface operations or of
\* one of S's capabilities whose raw value is get_ref_property reads as the
\* resolved value of the property its arguments name on the template that
\* S's requirement for the slot targets.
C12_RefPropertyResolved ==
    (read.op \in PropertyReads /\ IsRef(read.raw)) =>
        LET args == read.raw.d.get_ref_property
            T == SlotTarget(Topology, read.node, args[1])
            p == ReferredProperty(Topology, T, args)
        IN  (T # None /\ p # None) =>
                read.result = Property_value(Topology, p, RecursionLimit)

StructuredRefErrors ==
    {"ValueError: Unknown requirement slot", "ValueError: Unknown property",
     "ValueError: Unknown capability property"}

\* C13: a get_ref_property evaluation that produces no value fails with the
\* unknown-slot, the unknown-property or the unknown-capability-property
\* error, also when the slot's requirement is unbound or names a template
\* that does not exist.  Stated for a template's own property, on a template
\* whose requirements can be listed.
C13_RefErrorsStructured ==
    ( /\ read.op = "property" /\ IsRef(read.raw) /\ read.result.error # ""
      /\ requirements(Topology, get_template(Topology, read.node).value).error = "" )
    => read.result.error \in StructuredRefErrors

\* the keys of a requirement entry that are its own, not the framework's
OwnKeys(entry) == DOMAIN entry \ framework

\* the template of a read, as the topology gives it
ReadNode == get_template(Topology, read.node).value

\* the requirement entries of a node's merged type, and of its template
TypeEntries(node) ==
    IF node.cls._requirements.shape = "list" THEN node.cls._requirements.l ELSE <<>>

TemplateEntries(node) == DictGet(node.data, "requirements", <<>>)

\* whether every requirement entry of the node, of its type and of its
\* template, has exactly one key of its own
WellNamed(node) ==
    /\ \A i \in DOMAIN TypeEntries(node) : Cardinality(OwnKeys(TypeEntries(node)[i])) = 1
    /\ \A i \in DOMAIN TemplateEntries(node) :
           Cardinality(OwnKeys(TemplateEntries(node)[i])) = 1

\* the relation type a slot name selects when none is given
SlotDefault(slot) ==
    IF slot = "host" THEN <<"tosca", "relations", "HostedOn">>
    ELSE IF slot = "dependency" THEN <<"tosca", "relations", "DependsOn">>
    ELSE <<"tosca", "relations", "ConnectsTo">>

\* C14: requirements of a node whose entries each name one slot yields one
\* relation per requirement of the merged type, in order and named by its
\* slot, of class HostedOn for host, DependsOn for dependency and ConnectsTo
\* for any other slot when the template entry gives no relation type.
C14_OneRelationPerSlot ==
    (read.op = "requirements" /\ WellNamed(ReadNode)) =>
        /\ read.result.error = ""
        /\ Len(read.result.value.l) = Len(TypeEntries(ReadNode))
        /\ \A i \in DOMAIN TypeEntries(ReadNode) :
               LET r == read.result.value.l[i]
               IN  /\ OwnKeys(TypeEntries(ReadNode)[i]) = {r.name}
                   /\ r.cls.kind = "relations"
                   /\ (\A j \in DOMAIN TemplateEntries(ReadNode) :
                          (r.name \in DOMAIN TemplateEntries(ReadNode)[j]) =>
                              "relation_type" \notin DOMAIN TemplateEntries(ReadNode)[j])
                       => r.cls.tosca_name = SlotDefault(r.name)

\* a node with a host, a dependency and a third slot has had its
\* requirements read
C14_Witness ==
    /\ read.op = "requirements" /\ read.result.error = ""
    /\ {read.result.value.l[i].name : i \in DOMAIN read.result.value.l}
           = {"host", "database_endpoint", "dependency"}
    /\ TemplateEntries(ReadNode) # <<>>

\* the template entries of a node that carry a relation_type naming a loaded
\* relation type, for one slot
TypedEntries(node) ==
    { j \in DOMAIN TemplateEntries(node) :
        LET e == TemplateEntries(node)[j]
        IN  /\ "relation_type" \in DOMAIN e
            /\ e.relation_type.shape = "str"
            /\ get(Topology.types, e.relation_type.s, FALSE, ENTITY_KINDS) # None
            /\ get(Topology.types, e.relation_type.s, FALSE, ENTITY_KINDS).kind = "relations"
            /\ Cardinality(OwnKeys(e) \ {"relation_type"}) = 1 }

\* C15: a template requirement entry for a slot that carries a relation_type
\* naming a loaded relation type R gives, in the node's requirements, a
\* relation of class R for that slot, whatever the slot's name.
C15_ExplicitRelationType ==
    (read.op = "requirements" /\ IsInstance(ReadNode, "nodes")) =>
        \A j \in TypedEntries(ReadNode) :
            LET e == TemplateEntries(ReadNode)[j]
                R == get(Topology.types, e.relation_type.s, FALSE, ENTITY_KINDS)
            IN  /\ read.result.error = ""
                /\ \A i \in DOMAIN read.result.value.l :
                       read.result.value.l[i].name \in OwnKeys(e) =>
                           read.result.value.l[i].cls.tosca_name = R.tosca_name

AmbiguousError == "ValueError: Ambigious relation name"

\* every requirement entry of a node, of its type and of its template
AllEntries(node) ==
    {TypeEntries(node)[i] : i \in DOMAIN TypeEntries(node)}
        \cup {TemplateEntries(node)[i] : i \in DOMAIN TemplateEntries(node)}

\* C16: get_named_slot returns the one key of an entry that is not the
\* framework's, and requirements fails with the ambiguous-name error exactly
\* when some entry of the type or of the template does not have exactly one
\* such key: none, or more than one.
C16_AmbiguousUnlessOneKey ==
    (read.op = "requirements" /\ IsInstance(ReadNode, "nodes")) =>
        /\ (read.result.error = AmbiguousError) <=> ~WellNamed(ReadNode)
        /\ \A e \in AllEntries(ReadNode) :
               Cardinality(OwnKeys(e)) = 1 =>
                   /\ get_named_slot(e).error = ""
                   /\ OwnKeys(e) = {get_named_slot(e).name}

\* requirements has failed on a node whose entries have no more than one key
\* of their own each, one of them none
C16_Witness ==
    /\ read.op = "requirements" /\ read.result.error = AmbiguousError
    /\ \A e \in AllEntries(ReadNode) : Cardinality(OwnKeys(e)) <= 1
    /\ \E e \in AllEntries(ReadNode) : Cardinality(OwnKeys(e)) = 1

\* C16 as first stated: requirements fails with the ambiguous-name error
\* exactly when some entry has more than one key that is not the framework's.
C16_AmbiguousWhenSeveralKeys ==
    (read.op = "requirements" /\ IsInstance(ReadNode, "nodes")) =>
        ((read.result.error = AmbiguousError)
            <=> \E e \in AllEntries(ReadNode) : Cardinality(OwnKeys(e)) > 1)

\* the value under a slot's key: the template entry's when the template has
\* an entry for the slot, the type's otherwise
SlotValue(node, slot) ==
    LET given == {j \in DOMAIN TemplateEntries(node) : slot \in DOMAIN TemplateEntries(node)[j]}
        declared == {i \in DOMAIN TypeEntries(node) : slot \in DOMAIN TypeEntries(node)[i]}
    IN  IF given # {}
        THEN TemplateEntries(node)[CHOOSE j \in given : \A k \in given : k <= j][slot]
        ELSE TypeEntries(node)[CHOOSE i \in declared : TRUE][slot]

\* C17: the target of a relation is, for the value under its slot key, the
\* template's value overriding the type's: what get_template gives for a
\* string that does not start with tosca., undefined for a string that does
\* and for a mapping; so a template is a target only when such a string names
\* it and it is in node_templates.
C17_TargetBySlotValue ==
    read.op = "target" =>
        LET v == SlotValue(ReadNode, read.rel.name)
        IN  /\ (v.shape = "str" /\ ~(Len(v.s) > 1 /\ v.s[1] = "tosca")) =>
                   read.result = get_template(Topology, v.s)
            /\ (v.shape = "str" /\ Len(v.s) > 1 /\ v.s[1] = "tosca") =>
                   read.result = Ok(None)
            /\ v.shape = "dict" => read.result = Ok(None)
            /\ read.result.value # None =>
                   /\ v.shape = "str" /\ v.s[1] # "tosca"
                   /\ v.s \in DOMAIN data.node_templates
                   /\ read.result.value.name = v.s

\* the host relation of a template that names the server, where the type
\* names tosca.nodes.Compute, has given the server as its target
C17_Witness ==
    /\ read.op = "target" /\ read.rel.name = "host" /\ read.node = AppT
    /\ read.result.error = "" /\ read.result.value # None
    /\ read.result.value.name = Server
    /\ \E i \in DOMAIN TypeEntries(ReadNode) :
           /\ "host" \in DOMAIN TypeEntries(ReadNode)[i]
           /\ TypeEntries(ReadNode)[i].host = Str(NCompute)

\* the raw properties of a template in the document as it is now
RawProperties(n) == DictGet(data.node_templates[n], "properties", EmptyMap)

\* C18: a read of an output defined as get_property(T, p), on an Output
\* object obtained earlier, is undefined while T's raw properties lack p and
\* is x once they hold x under p: nothing read before is kept.
C18_OutputReadsCurrent ==
    \A T \in DOMAIN data.node_templates, p \in PropertyNames :
        ( /\ read.op = "output" /\ read.out \in held
          /\ read.out.attrs.value = GetProperty(T, p) )
        => read.result = Ok(DictGet(RawProperties(T), p, None))

\* whether a node's type declares an interface, as a sequence or as a mapping
DeclaresInterface(node) ==
    /\ IsInstance(node, "nodes")
    /\ \/ node.cls._interfaces.shape = "list" /\ node.cls._interfaces.l # <<>>
       \/ node.cls._interfaces.shape = "dict" /\ node.cls._interfaces.d # EmptyMap

\* the interface type a node's type selects: the first element of a
\* sequence, the first key of a mapping
SelectedInterface(node, first) ==
    get(Topology.types,
        IF node.cls._interfaces.shape = "list" THEN node.cls._interfaces.l[1] ELSE first,
        FALSE, <<"interfaces">>)

\* C19: interfaces of a node whose type selects a loaded interface type
\* yields one operation per operation of that interface type, whatever the
\* template's interfaces section holds, each carrying the template's
\* fragment under the operation's name, empty when there is none.
C19_OperationPerInterfaceOp ==
    ( /\ read.op = "interfaces" /\ DeclaresInterface(ReadNode)
      /\ SelectedInterface(ReadNode, read.first) # None )
    => LET itype == SelectedInterface(ReadNode, read.first)
           fragments == DictGet(ReadNode.data, "interfaces", EmptyMap)
       IN  /\ read.result.error = ""
           /\ {read.result.value.l[i].name : i \in DOMAIN read.result.value.l}
                  = DOMAIN itype.data
           /\ Len(read.result.value.l) = Cardinality(DOMAIN itype.data)
           /\ \A i \in DOMAIN read.result.value.l :
                  LET o == read.result.value.l[i]
                  IN  /\ o.kind = "operation"
                      /\ o.data = IF o.name \in DOMAIN fragments THEN fragments[o.name]
                                  ELSE Dict(EmptyMap)

\* the interfaces of a template whose interfaces section has a fragment for
\* one operation of the interface and one for a name that is no operation
\* of it have been read, or a fragment for one operation only
C19_Witness ==
    /\ read.op = "interfaces" /\ read.result.error = ""
    /\ DictGet(ReadNode.data, "interfaces", EmptyMap) # EmptyMap
    /\ \E i \in DOMAIN read.result.value.l :
           read.result.value.l[i].data # Dict(EmptyMap)
    /\ \E i \in DOMAIN read.result.value.l :
           read.result.value.l[i].data = Dict(EmptyMap)

\* C20: validate of a template whose node type is loaded and whose
\* requirement entries each name one slot returns a list of messages and
\* raises nothing, whatever the numbers of requirements, properties,
\* operations and capabilities its type declares.
C20_ValidateReturnsList ==
    ( /\ read.op = "validate" /\ IsInstance(ReadNode, "nodes")
      /\ WellNamed(ReadNode) )
    => /\ read.result.error = ""
       /\ read.result.value.shape = "list"

\* the properties a node's type declares, and what its template gives them
DeclaredProperties(node) ==
    IF node.cls._properties.shape = "dict" THEN node.cls._properties.d ELSE EmptyMap

GivenProperties(node) == DictGet(node.data, "properties", EmptyMap)

\* a declared property marked required, with no default and no template value
MissingRequired(node) ==
    \E k \in DOMAIN DeclaredProperties(node) :
        /\ DictGet(DeclaredProperties(node)[k], "required", FALSE) = TRUE
        /\ "default" \notin DOMAIN DeclaredProperties(node)[k]
        /\ k \notin DOMAIN GivenProperties(node)

\* a declared property whose template value is a literal outside the
\* valid_values its schema lists
ViolatesConstraint(node) ==
    \E k \in DOMAIN DeclaredProperties(node) \cap DOMAIN GivenProperties(node) :
        /\ GivenProperties(node)[k].shape \in {"int", "str"}
        /\ "constraints" \in DOMAIN DeclaredProperties(node)[k]
        /\ \E i \in DOMAIN DeclaredProperties(node)[k].constraints.l :
               LET c == DeclaredProperties(node)[k].constraints.l[i]
               IN  /\ "valid_values" \in DOMAIN c
                   /\ GivenProperties(node)[k] \notin Range(c.valid_values.l)

\* C21: validate of a template with a required property that has neither a
\* default nor a template value, or with a property whose value violates a
\* constraint of its schema, returns a list that is not empty.
C21_InvalidPropertyReported ==
    ( /\ read.op = "validate" /\ IsInstance(ReadNode, "nodes") /\ WellNamed(ReadNode)
      /\ MissingRequired(ReadNode) \/ ViolatesConstraint(ReadNode) )
    => /\ read.result.error = ""
       /\ read.result.value.shape = "list"
       /\ read.result.value.l # <<>>

\* C30: a property of a template reads back the literal the template gives
\* it whenever the template gives one, a false one (0, false, '') included;
\* the schema's default is read only when the template gives no value.
C30_LiteralReadBack ==
    (read.op = "property" /\ read.name \in DOMAIN DeclaredProperties(ReadNode)) =>
        IF read.name \in DOMAIN GivenProperties(ReadNode)
        THEN GivenProperties(ReadNode)[read.name].shape \in {"int", "str", "bool"} =>
                read.result = Ok(GivenProperties(ReadNode)[read.name])
        ELSE read.result = Ok(DictGet(DeclaredProperties(ReadNode)[read.name], "default", None))

\* InterfaceOperation.implementation: the fragment itself when it is a
\* string, its implementation key otherwise
implementation(o) ==
    IF o.data.shape = "str" THEN o.data
    ELSE DictGet(o.data.d, "implementation", None)

\* the operations of a node whose implementation is missing or empty
Unimplemented(node, first) ==
    LET ops == interfaces_of(Topology, node, first).value.l
    IN  {i \in DOMAIN ops : Falsy(implementation(ops[i]))}

\* C22: validate of a template returns a message for every interface
\* operation whose implementation is missing or empty.
C22_MissingImplementationReported ==
    ( /\ read.op = "validate" /\ IsInstance(ReadNode, "nodes") /\ WellNamed(ReadNode)
      /\ DeclaresInterface(ReadNode)
      /\ SelectedInterface(ReadNode, read.first) # None )
    => /\ read.result.error = ""
       /\ read.result.value.shape = "list"
       /\ Len(read.result.value.l) >= Cardinality(Unimplemented(ReadNode, read.first))

\* the error a resolver that bounds its own recursion ends a cycle with
ResolutionCycleError == "ResolutionCycleError"

\* C24: a read of a property whose deferred function leads back to the
\* property itself ends with the resolution-cycle error.
C24_CycleEndsWithCycleError ==
    ( /\ read.op = "property"
      /\ read.raw = GetProperty(read.node, read.name) )
    => read.result.error = ResolutionCycleError

(***************************************************************************)
(* A loaded topology that is read and whose inputs are bound               *)
(***************************************************************************)
BothBound == <<[host |-> Str(Server)], [database_endpoint |-> Str(Db)]>>

\* two of the documents: a web application whose db_host goes through its
\* host slot, and one that configures an operation
FrameDocuments ==
    { [node_templates |-> (Server :> ServerTemplate) @@ (Db :> DbTemplate) @@ (AppT :> app),
       node_types |-> TopoNodeTypes,
       outputs |-> TopoOutputs] :
        app \in { AppTemplate(NWebApp, GetRefProperty(<<"host", "ip_address">>), BothBound,
                              EmptyMap),
                  AppTemplate(NWebApp, PyInt(0), BothBound,
                              [configure |-> Dict([implementation |->
                                                     Str(<<"configure", "sh">>)])]) } }

\* the inputs section: cpus declared with a default and not bound
FrameInputs == [cpus |-> [type |-> "number", description |-> "cpus", default |-> PyInt(1)]]

\* the mappings bind_inputs is called with: cpus alone, and cpus with a name
\* that is not declared
FrameMappings ==
    { [cpus |-> PyInt(0)], [cpus |-> PyInt(1)], [cpus |-> PyInt(1), db_user |-> PyInt(1)] }

InitFrame ==
    /\ data \in FrameDocuments
    /\ \E h \in TopoHierarchies :
        /\ nodes = h.nodes /\ capabilities = h.capabilities
        /\ relations = h.relations /\ interfaces = h.interfaces
    /\ inputs = FrameInputs
    /\ bound = [values |-> EmptyMap, items |-> <<>>] /\ bind_error = ""
    /\ pending = <<>> /\ phase = "ready" /\ error = "" /\ call = NoCall
    /\ graph_unsorted = EmptyMap /\ graph_sorted = <<>> /\ order = <<>> /\ pc = "idle"
    /\ read = NoRead /\ held = {} /\ argv = NoArgs

BindFrameInputs == BindFrom(FrameMappings)

NextFrame ==
    \/ ReadProperty
    \/ GetTemplate
    \/ ReadRequirements
    \/ ReadTarget
    \/ ReadInterfaces
    \/ ReadOperationInput
    \/ ReadCapabilityProperty
    \/ Validate
    \/ GetOutput
    \/ ReadOutput
    \/ BindFrameInputs

SpecFrame == InitFrame /\ [][NextFrame]_vars

PyBool(b) == [shape |-> "bool", b |-> b]

\* len(y)
PyLen(y) == IF y.shape = "list" THEN Len(y.l) ELSE Len(y.s)

\* Constraint.operator_map: op(x, y), x the constraint's argument and y the
\* value; re.match(x, y) for a pattern x without special characters
operator_map(constraint_type, x, y) ==
    CASE constraint_type = "equal" -> x = y
      [] constraint_type = "greater_than" -> x.i > y.i
      [] constraint_type = "greater_or_equal" -> x.i >= y.i
      [] constraint_type = "less_than" -> x.i < y.i
      [] constraint_type = "less_or_equal" -> x.i <= y.i
      [] constraint_type = "in_range" -> y.i \in (x.l[1].i)..(x.l[2].i - 1)
      [] constraint_type = "valid_values" -> y \in Range(x.l)
      [] constraint_type = "length" -> PyLen(y) = x.i
      [] constraint_type = "min_length" -> PyLen(y) > x.i
      [] constraint_type = "max_length" -> PyLen(y) < x.i
      [] constraint_type = "pattern" -> Len(y.s) >= Len(x.s) /\ SubSeq(y.s, 1, Len(x.s)) = x.s

OperatorNames ==
    {"equal", "greater_than", "greater_or_equal", "less_than", "less_or_equal", "in_range",
     "valid_values", "length", "min_length", "max_length", "pattern"}

\* Constraint.validate(constraint_type, constraint, value)
Constraint_validate(constraint_type, constraint, value) ==
    IF constraint_type \notin OperatorNames THEN Raise("ValueError: Unknown constraint type")
    ELSE Ok(PyBool(operator_map(constraint_type, constraint, value)))

\* the largest integer and the longest sequence the calls are made on
MaxInt == 3
MaxSeq == 2

Ints == {PyInt(i) : i \in 0..MaxInt}
IntLists == {List(q) : q \in UNION {[1..n -> Ints] : n \in 0..MaxSeq}}
Texts == {Str(<<>>), Str(<<"a">>), Str(<<"a", "b">>), Str(<<"b">>)}

\* the calls of Constraint.validate: each operator on arguments of its types,
\* and two operator names that are not of the closed set
ConstraintCalls ==
    { [fn |-> "validate", type |-> t, arg |-> a, v |-> v] :
        t \in {"equal", "greater_than", "greater_or_equal", "less_than", "less_or_equal",
               "between"},
        a \in Ints, v \in Ints }
    \cup { [fn |-> "validate", type |-> "in_range", arg |-> List(<<lo, hi>>), v |-> v] :
             lo \in Ints, hi \in Ints, v \in Ints }
    \cup { [fn |-> "validate", type |-> "valid_values", arg |-> a, v |-> v] :
             a \in IntLists, v \in Ints }
    \cup { [fn |-> "validate", type |-> t, arg |-> a, v |-> v] :
             t \in {"length", "min_length", "max_length"}, a \in Ints,
             v \in IntLists \cup Texts }
    \cup { [fn |-> "validate", type |-> "pattern", arg |-> a, v |-> v] :
             a \in Texts, v \in Texts }

\* which object merge(x, y) returns: its argument y itself ("y"), an object
\* it made ("new"), or nothing when it raises or falls off its end ("")
merge_returns(x, y) ==
    IF x = None THEN "y"
    ELSE IF y = None THEN (IF x.shape = "dict" THEN "new" ELSE "")
    ELSE "y"

\* the values merge is called on
MergeValues ==
    { None, Dict(EmptyMap), Dict([a |-> PyInt(1)]), Dict([a |-> PyInt(2), b |-> PyInt(1)]),
      List(<<>>), List(<<PyInt(1)>>), List(<<PyInt(2), PyInt(1)>>) }

MergeCalls == { [fn |-> "merge", x |-> x, y |-> y] : x \in MergeValues, y \in MergeValues }

\* a call of one of the two functions is about to be made
InitCalls ==
    /\ argv \in ConstraintCalls \cup MergeCalls
    /\ read = NoRead /\ held = {}
    /\ nodes = EmptyMap /\ capabilities = EmptyMap
    /\ relations = EmptyMap /\ interfaces = EmptyMap
    /\ data = EmptyMap /\ pending = <<>> /\ phase = "new" /\ error = "" /\ call = NoCall
    /\ graph_unsorted = EmptyMap /\ graph_sorted = <<>> /\ order = <<>> /\ pc = "idle"
    /\ inputs = EmptyMap /\ bound = EmptyMap /\ bind_error = ""

\* Constraint.validate(type, arg, v)
CallValidate ==
    /\ argv.fn = "validate" /\ read = NoRead
    /\ read' = [op |-> "validate_constraint",
                result |-> Constraint_validate(argv.type, argv.arg, argv.v)]
    /\ UNCHANGED <<typeVars, sortVars, bindVars, held, argv>>

\* merge(x, y)
CallMerge ==
    /\ argv.fn = "merge" /\ read = NoRead
    /\ read' = [op |-> "merge", result |-> merge(argv.x, argv.y),
                returns |-> merge_returns(argv.x, argv.y)]
    /\ UNCHANGED <<typeVars, sortVars, bindVars, held, argv>>

NextCalls ==
    \/ CallValidate
    \/ CallMerge

SpecCalls == InitCalls /\ [][NextCalls]_vars

(***************************************************************************)
(* Properties of the two functions, checked under SpecCalls                *)
(***************************************************************************)
\* what a constraint of the closed set says of value v, as stated for it
Stated(op, arg, v) ==
    CASE op = "equal" -> v = arg
      [] op = "greater_than" -> v.i > arg.i
      [] op = "greater_or_equal" -> v.i >= arg.i
      [] op = "less_than" -> v.i < arg.i
      [] op = "less_or_equal" -> v.i <= arg.i
      [] op = "in_range" -> arg.l[1].i <= v.i /\ v.i < arg.l[2].i
      [] op = "valid_values" -> \E i \in DOMAIN arg.l : arg.l[i] = v
      [] op = "length" -> PyLen(v) = arg.i
      [] op = "min_length" -> PyLen(v) > arg.i
      [] op = "max_length" -> PyLen(v) < arg.i

StatedOperators ==
    {"equal", "greater_than", "greater_or_equal", "less_than", "less_or_equal", "in_range",
     "valid_values", "length", "min_length", "max_length"}

\* C23: Constraint.validate(op, arg, v) is true exactly when the semantics
\* stated for op hold of v and arg, for each op of the closed set, and fails
\* with the unknown-constraint error for any other op.
C23_ConstraintSemantics ==
    read.op = "validate_constraint" =>
        read.result =
            IF argv.type \in StatedOperators
            THEN Ok(PyBool(Stated(argv.type, argv.arg, argv.v)))
            ELSE Raise("ValueError: Unknown constraint type")

\* C27: merge with exactly one of its two arguments absent returns, without
\* an error, a value equal to the present one in an object of its own: not
\* the child's fragment itself when the parent is absent, and equal to the
\* parent when the child is absent and the parent is a mapping or a sequence.
C27_MergeCopiesThePresent ==
    ( /\ read.op = "merge"
      /\ (argv.x = None) # (argv.y = None) )
    => /\ read.result = IF argv.x = None THEN argv.y ELSE argv.x
       /\ read.returns = "new"
====
